---- MODULE Spec2Model ----
(***************************************************************************)
(* Semantic near-duplicate detection.                                      *)
(*                                                                         *)
(*  - cluster-and-collapse run over tabular rows                           *)
(*      (DeduplicationStage/deduplicateApp.py, main)                       *)
(*  - pairwise-report run over documents, from the command line            *)
(*      (DeduplicationStage/Deduplication.py, main) and from the web page  *)
(*      (CaseStudy2/app_streamlit_near_dupes.py)                           *)
(*                                                                         *)
(* Texts are sequences of one-character strings.  Similarities and the     *)
(* threshold are integers in units of 1e-5 (1.0 is 100000).  The vectors   *)
(* returned by the embedding provider are represented by the cosine        *)
(* similarity they induce between the embedded texts; a document stands   *)
(* for the list of chunks its text is cut into, a chunk for its text.      *)
(* Row positions are 0-based, as in the source.                            *)
(***************************************************************************)
EXTENDS Integers, Sequences, FiniteSets, TLC

\* ------------------------------------------------------------------ bounds

\* rows of the input file of a cluster-and-collapse run
MaxRows == 3

\* ------------------------------------------------------------------ inputs

\* a missing cell of the text column, as the data frame reads it
NA == <<"NaN">>

\* the cells of the text column: texts that differ in case, in padding and in
\* length, a blank text and a missing value
Cells ==
    { <<" ">>,
      <<"a">>,
      <<"A">>,
      <<"a", " ">>,
      <<"a", "a">>,
      <<"a", " ", "a">>,
      NA }

\* the cosine similarities the vectors of two different texts can have
SimLevels == {20000, 90000}

\* --threshold
Thresholds == {90000, 100000}

\* --rep-strategy
Strategies == {"first", "longest"}

\* --batch-size
BatchSizes == {1, 2}

\* ----------------------------------------------------------- 0-based lists

Range0(n) == 0..(n - 1)

Len0(f) == Cardinality(DOMAIN f)

Empty0 == [k \in {} |-> 0]

Append0(f, x) == [k \in Range0(Len0(f) + 1) |-> IF k < Len0(f) THEN f[k] ELSE x]

Lists0(S, n) == UNION {[Range0(k) -> S] : k \in 0..n}

Min(S) == CHOOSE x \in S : \A y \in S : x <= y

\* the elements of a set of integers in ascending order: sorted(set(...))
RECURSIVE sorted(_)
sorted(S) == IF S = {} THEN Empty0
             ELSE LET m == CHOOSE x \in S : \A y \in S : y <= x
                  IN Append0(sorted(S \ {m}), m)

Elems0(f) == {f[k] : k \in DOMAIN f}

\* --------------------------------------------------------- text operations

lower(c) == IF c = "A" THEN "a" ELSE c

isspace(c) == c \in {" ", "\n", "\t", "\r"}

\* str(s) for a cell of the text column
str(s) == IF s = NA THEN <<"n", "a", "n">> ELSE s

RECURSIVE TakeWord(_)
TakeWord(s) == IF s = <<>> \/ isspace(Head(s)) THEN <<>>
               ELSE <<Head(s)>> \o TakeWord(Tail(s))

\* s.split(): the maximal runs of non-whitespace characters
RECURSIVE split(_)
split(s) == IF s = <<>> THEN <<>>
            ELSE IF isspace(Head(s)) THEN split(Tail(s))
            ELSE LET w == TakeWord(s)
                 IN <<w>> \o split(SubSeq(s, Len(w) + 1, Len(s)))

\* sep.join(ws)
RECURSIVE join(_, _)
join(sep, ws) == IF ws = <<>> THEN <<>>
                 ELSE IF Len(ws) = 1 THEN ws[1]
                 ELSE ws[1] \o sep \o join(sep, Tail(ws))

\* " ".join(s.strip().lower().split())
normalize_text(s) ==
    LET t == str(s)
        low == [k \in 1..Len(t) |-> lower(t[k])]
    IN join(<<" ">>, split(low))

\* --------------------------------------------------------------------- DSU

\* DSU.__init__
DSU(n) == [parent |-> [k \in Range0(n) |-> k], rank |-> [k \in Range0(n) |-> 0]]

\* DSU.find, with its path halving: the parent list it leaves and the root
RECURSIVE find(_, _)
find(parent, x) ==
    IF parent[x] = x THEN [parent |-> parent, root |-> x]
    ELSE LET halved == [parent EXCEPT ![x] = parent[parent[x]]]
         IN find(halved, halved[x])

\* union linking the two elements instead of their roots
union_elements(dsu, a, b) ==
    LET lo == IF a < b THEN a ELSE b
        hi == IF a < b THEN b ELSE a
    IN [parent |-> [dsu.parent EXCEPT ![hi] = lo], rank |-> dsu.rank]

\* union hanging the root of b under the root of a whatever their ranks, the
\* ranks left as they are
union_without_rank(dsu, a, b) ==
    LET fa == find(dsu.parent, a)
        fb == find(fa.parent, b)
    IN IF fa.root = fb.root THEN [parent |-> fb.parent, rank |-> dsu.rank]
       ELSE [parent |-> [fb.parent EXCEPT ![fb.root] = fa.root], rank |-> dsu.rank]

\* DSU.union
union(dsu, a, b) ==
    LET fa == find(dsu.parent, a)
        fb == find(fa.parent, b)
        ra == fa.root
        rb == fb.root
        parent == fb.parent
        rank == dsu.rank
    IN IF ra = rb THEN [parent |-> parent, rank |-> rank]
       ELSE IF rank[ra] < rank[rb]
            THEN [parent |-> [parent EXCEPT ![ra] = rb], rank |-> rank]
       ELSE IF rank[rb] < rank[ra]
            THEN [parent |-> [parent EXCEPT ![rb] = ra], rank |-> rank]
       ELSE [parent |-> [parent EXCEPT ![rb] = ra],
             rank |-> [rank EXCEPT ![ra] = rank[ra] + 1]]

\* the inner loop of build_clusters for one i: union i with each j of
\* neigh_ind[i], in the order the neighbor search returned them
RECURSIVE UnionAll(_, _, _)
UnionAll(dsu, i, js) ==
    IF js = <<>> THEN dsu
    ELSE UnionAll(IF i # Head(js) THEN union(dsu, i, Head(js)) ELSE dsu, i, Tail(js))

\* the orders in which the members of a set can be listed
RECURSIVE Orders(_)
Orders(S) == IF S = {} THEN {<<>>}
             ELSE UNION {{<<x>> \o o : o \in Orders(S \ {x})} : x \in S}

\* the "group by root" loop of build_clusters: the dict as the list of its
\* (root, members) items in insertion order, and the parent list left by find
RECURSIVE GroupByRoot(_, _, _, _)
GroupByRoot(parent, i, n, clusters) ==
    IF i >= n THEN [parent |-> parent, clusters |-> clusters]
    ELSE LET f == find(parent, i)
             r == f.root
             at == {k \in DOMAIN clusters : clusters[k].root = r}
         IN GroupByRoot(f.parent, i + 1, n,
                IF at = {}
                THEN Append0(clusters, [root |-> r, members |-> Append0(Empty0, i)])
                ELSE LET k == CHOOSE k \in at : TRUE
                     IN [clusters EXCEPT ![k].members = Append0(@, i)])

\* choose_representative with the longest-text branch never taken
choose_representative_always_first(indices, texts, strategy) ==
    Min(Elems0(indices))

\* choose_representative with the two strategies swapped
choose_representative_swapped(indices, texts, strategy) ==
    IF strategy # "longest"
    THEN LET best == {k \in DOMAIN indices :
                         \A m \in DOMAIN indices :
                             Len(texts[indices[m]]) <= Len(texts[indices[k]])}
         IN indices[Min(best)]
    ELSE Min(Elems0(indices))

\* choose_representative with a sort that is not stable: among the entries of
\* greatest length the last one comes first
choose_representative_last_tie(indices, texts, strategy) ==
    IF strategy = "longest"
    THEN LET best == {k \in DOMAIN indices :
                         \A m \in DOMAIN indices :
                             Len(texts[indices[m]]) <= Len(texts[indices[k]])}
         IN indices[CHOOSE k \in best : \A m \in best : m <= k]
    ELSE Min(Elems0(indices))

\* choose_representative
choose_representative(indices, texts, strategy) ==
    IF strategy = "longest"
    THEN \* the stable descending sort by length puts first the earliest
         \* entry of `indices` among those of greatest length
         LET best == {k \in DOMAIN indices :
                         \A m \in DOMAIN indices :
                             Len(texts[indices[m]]) <= Len(texts[indices[k]])}
         IN indices[Min(best)]
    ELSE Min(Elems0(indices))

\* ------------------------------------------------------------------- state

VARIABLES
    pc,                   \* where the run stands
    args,                 \* the parsed command line
    in_rows,              \* the text column of the input file, row by row
    df,                   \* the data frame after the empty rows are dropped
    first_idx_by_text,
    group_indices,
    df_exact,             \* the _orig_idx column of df_exact
    batch_size,           \* of embed_texts, until it returns; 0 outside a call
    batch_at,             \* requests embed_texts has sent, until it returns
    vecs,                 \* vectors embed_texts has received, until it returns
    provider_called,      \* a request was sent to the embedding provider
    failed_batch,         \* the request the provider failed on, 0 if none
    embeddings,           \* cosine similarity of the vectors of df_exact rows
    neigh_ind,
    dsu,
    i,                    \* the loop variable of the union loop
    clusters,
    kept_rows_exact_idx,
    cluster_report,
    out_file,             \* the filtered output as saved, or Unwritten
    report_file,          \* the cluster report as saved, or Unwritten
    files,                \* the documents of the input directory or upload
    docs,                 \* the documents collected
    warned,               \* the names the run warned about
    doc_sims,             \* the similarities induced by the chunk vectors
    doc_embs,
    pairs,
    csv_rows,             \* the rows of the pairwise report, or Unwritten
    flagged,
    paragraphs,           \* the paragraphs chunk_paragraphs is called on
    chunk_size,
    overlap,
    chunks,
    cur,
    cur_len,
    para_at,              \* the paragraph the loop of chunk_paragraphs is at
    returned,             \* what chunk_paragraphs returned
    raw,                  \* the text read from a document
    norm,                 \* what normalize_text made of it
    find_of,              \* the element DSU.find was called on
    find_at,              \* x of the loop of DSU.find
    members_before,       \* the sets of the DSU when find was called
    explained,            \* the pairs an explanation was requested for
    n_done,               \* explanations counted by the loop
    config,               \* the configuration of the pipeline runner
    raw_records,
    stage,                \* the stage run() is in
    payload_at,           \* the payload of the stage _post is called on
    payloads,             \* how many payloads the stage posts
    outcomes,             \* of the attempts _post made for the payload
    posts                 \* the stages an HTTP attempt was made for

explainVars == <<explained, n_done>>

pairVars == <<files, docs, warned, doc_sims, doc_embs, pairs, csv_rows, flagged,
              explainVars>>

embedVars == <<batch_size, batch_at, vecs, provider_called, failed_batch>>

collapseVars == <<in_rows, df, first_idx_by_text, group_indices, df_exact, embedVars,
                  embeddings, neigh_ind, dsu, i, clusters, kept_rows_exact_idx,
                  cluster_report, out_file, report_file>>

chunkVars == <<paragraphs, chunk_size, overlap, chunks, cur, cur_len, para_at, returned>>

normVars == <<raw, norm>>

findVars == <<find_of, find_at, members_before>>

pipeVars == <<config, raw_records, stage, payload_at, payloads, outcomes, posts>>

vars == <<pc, args, collapseVars, pairVars, chunkVars, normVars, findVars, pipeVars>>

Unwritten == <<"unwritten">>

ArgSets == [threshold : Thresholds, rep_strategy : Strategies, report_path : BOOLEAN]

\* the state of a cluster-and-collapse run before its first step
CollapseFresh ==
    /\ df = Empty0
    /\ first_idx_by_text = Empty0
    /\ group_indices = Empty0
    /\ df_exact = Empty0
    /\ batch_at = 0
    /\ vecs = 0
    /\ provider_called = FALSE
    /\ failed_batch = 0
    /\ embeddings = Empty0
    /\ neigh_ind = Empty0
    /\ dsu = DSU(0)
    /\ i = 0
    /\ clusters = Empty0
    /\ kept_rows_exact_idx = Empty0
    /\ cluster_report = Empty0
    /\ out_file = Unwritten
    /\ report_file = Unwritten

\* the state of a pairwise run before its first step
PairwiseFresh ==
    /\ docs = Empty0
    /\ warned = {}
    /\ doc_sims = Empty0
    /\ doc_embs = Empty0
    /\ pairs = Empty0
    /\ csv_rows = Unwritten
    /\ flagged = Empty0
    /\ explained = Empty0
    /\ n_done = 0

\* no call of chunk_paragraphs is under way
ChunkFresh ==
    /\ paragraphs = <<>>
    /\ chunk_size = 1000
    /\ overlap = 200
    /\ chunks = <<>>
    /\ cur = <<>>
    /\ cur_len = 0
    /\ para_at = 1
    /\ returned = <<>>

\* normalize_text is not under way
NormFresh ==
    /\ raw = <<>>
    /\ norm = <<>>

\* no call of DSU.find is under way
FindFresh ==
    /\ find_of = 0
    /\ find_at = 0
    /\ members_before = {}

\* no pipeline runner exists
PipeFresh ==
    /\ config = [simulate |-> FALSE, retry_attempts |-> 0, missing |-> {}]
    /\ raw_records = <<>>
    /\ stage = 0
    /\ payload_at = 0
    /\ payloads = 0
    /\ outcomes = <<>>
    /\ posts = {}

\* a cluster-and-collapse run is started on an input file
InitCollapse ==
    /\ pc = "start"
    /\ args \in ArgSets
    /\ in_rows \in Lists0(Cells, MaxRows)
    /\ batch_size \in BatchSizes
    /\ CollapseFresh
    /\ files = Empty0
    /\ PairwiseFresh
    /\ ChunkFresh
    /\ NormFresh
    /\ FindFresh
    /\ PipeFresh

\* ------------------------------------------------- main of deduplicateApp

\* the rows of `rows` whose normalized text is non-empty, re-indexed
RECURSIVE DropEmpty(_, _)
DropEmpty(rows, k) ==
    IF k >= Len0(rows) THEN Empty0
    ELSE LET rest == DropEmpty(rows, k + 1)
             row == [text |-> rows[k], _text_norm |-> normalize_text(rows[k]), src |-> k]
         IN IF Len(row._text_norm) > 0
            THEN [m \in Range0(Len0(rest) + 1) |-> IF m = 0 THEN row ELSE rest[m - 1]]
            ELSE rest

\* a data frame without its _text_norm column
Saved(frame) == [k \in DOMAIN frame |-> [text |-> frame[k].text, src |-> frame[k].src]]

\* load_df, the _text_norm column, the drop of the empty rows
LoadAndFilter ==
    /\ pc = "start"
    /\ df' = DropEmpty(in_rows, 0)
    /\ IF Len0(df') = 0
       THEN /\ out_file' = Saved(df')
            /\ pc' = "done"
       ELSE /\ out_file' = out_file
            /\ pc' = "loaded"
    /\ UNCHANGED <<embedVars, chunkVars, normVars, findVars, pipeVars, pairVars, args, in_rows, first_idx_by_text, group_indices, df_exact,
                   embeddings, neigh_ind, dsu, i, clusters, kept_rows_exact_idx,
                   cluster_report, report_file>>

\* the pre-collapse loop recording every row as the first of its text
BucketsPerRow(frame, k) ==
    [first |-> [t \in {frame[m]._text_norm : m \in Range0(k)} |->
                   CHOOSE m \in Range0(k) :
                       /\ frame[m]._text_norm = t
                       /\ \A m2 \in Range0(k) : frame[m2]._text_norm = t => m2 <= m],
     groups |-> [h \in Range0(k) |-> Append0(Empty0, h)]]

\* the pre-collapse loop moving the first row of a text on to the row just
\* seen
RECURSIVE BucketsLastSeen(_, _)
BucketsLastSeen(frame, k) ==
    IF k = 0 THEN [first |-> Empty0, groups |-> Empty0]
    ELSE LET b == BucketsLastSeen(frame, k - 1)
             val == frame[k - 1]._text_norm
             head == IF val \in DOMAIN b.first THEN b.first[val] ELSE k - 1
         IN [first |-> [t \in DOMAIN b.first \cup {val} |->
                           IF t = val THEN k - 1 ELSE b.first[t]],
             groups |-> [h \in DOMAIN b.groups \cup {head} |->
                            IF h = head
                            THEN Append0(IF h \in DOMAIN b.groups THEN b.groups[h]
                                         ELSE Empty0, k - 1)
                            ELSE b.groups[h]]]

\* the pre-collapse loop: first_idx_by_text and group_indices after rows 0..k-1
RECURSIVE Buckets(_, _)
Buckets(frame, k) ==
    IF k = 0 THEN [first |-> Empty0, groups |-> Empty0]
    ELSE LET b == Buckets(frame, k - 1)
             val == frame[k - 1]._text_norm
             first == IF val \in DOMAIN b.first THEN b.first
                      ELSE [t \in DOMAIN b.first \cup {val} |->
                               IF t = val THEN k - 1 ELSE b.first[t]]
             head == first[val]
         IN [first |-> first,
             groups |-> [h \in DOMAIN b.groups \cup {head} |->
                            IF h = head
                            THEN Append0(IF h \in DOMAIN b.groups THEN b.groups[h]
                                         ELSE Empty0, k - 1)
                            ELSE b.groups[h]]]

PreCollapse ==
    /\ pc = "loaded"
    /\ LET b == Buckets(df, Len0(df))
       IN /\ first_idx_by_text' = b.first
          /\ group_indices' = b.groups
          /\ df_exact' = sorted(DOMAIN b.groups)
    /\ pc' = "collapsed"
    /\ UNCHANGED <<embedVars, chunkVars, normVars, findVars, pipeVars, pairVars, args, in_rows, df, embeddings, neigh_ind, dsu, i, clusters,
                   kept_rows_exact_idx, cluster_report, out_file, report_file>>

\* the similarity matrices a provider can induce on n distinct texts
SimMatrices(n) ==
    LET couples == {{a, b} : a \in Range0(n), b \in Range0(n)} \ {{a} : a \in Range0(n)}
    IN {[p \in Range0(n) \X Range0(n) |->
            IF p[1] = p[2] THEN 100000 ELSE f[{p[1], p[2]}]] : f \in [couples -> SimLevels]}

\* a failed request is skipped and the loop goes on
EmbedBatchSkipped ==
    /\ pc = "collapsed"
    /\ batch_at' = batch_at + 1
    /\ provider_called' = TRUE
    /\ failed_batch' = batch_at'
    /\ UNCHANGED <<chunkVars, normVars, findVars, pipeVars, pairVars, pc, args, in_rows, df, first_idx_by_text,
                   group_indices, df_exact, batch_size, vecs, embeddings, neigh_ind, dsu,
                   i, clusters, kept_rows_exact_idx, cluster_report, out_file,
                   report_file>>

\* embed_texts: the provider fails on the request for the next batch; the
\* exception leaves embed_texts and main
EmbedBatchFails ==
    /\ pc = "collapsed"
    /\ batch_at' = batch_at + 1
    /\ provider_called' = TRUE
    /\ failed_batch' = batch_at'
    /\ pc' = "failed"
    /\ UNCHANGED <<chunkVars, normVars, findVars, pipeVars, pairVars, args, in_rows, df, first_idx_by_text,
                   group_indices, df_exact, batch_size, vecs, embeddings, neigh_ind, dsu,
                   i, clusters, kept_rows_exact_idx, cluster_report, out_file,
                   report_file>>

\* embed_texts: the provider answers the request for the next batch; after
\* the last batch the matrix is returned and the locals of embed_texts are
\* gone
EmbedBatch ==
    /\ pc = "collapsed"
    /\ provider_called' = TRUE
    /\ LET received == Min({vecs + batch_size, Len0(df_exact)})
       IN IF received = Len0(df_exact)
          THEN /\ embeddings' \in SimMatrices(Len0(df_exact))
               /\ pc' = "embedded"
               /\ batch_size' = 0
               /\ batch_at' = 0
               /\ vecs' = 0
          ELSE /\ batch_at' = batch_at + 1
               /\ vecs' = received
               /\ UNCHANGED <<embeddings, pc, batch_size>>
    /\ UNCHANGED <<chunkVars, normVars, findVars, pipeVars, pairVars, args, in_rows, df, first_idx_by_text,
                   group_indices, df_exact, failed_batch, neigh_ind, dsu, i, clusters,
                   kept_rows_exact_idx, cluster_report, out_file, report_file>>

\* the neighbor search leaving out the rows at distance exactly radius
radius_neighbors_strict(E, n, radius) ==
    [a \in Range0(n) |-> {b \in Range0(n) : 100000 - E[<<a, b>>] < radius}]

\* NearestNeighbors(metric="cosine", radius).radius_neighbors(E): for each row
\* the rows at cosine distance at most radius, the row itself included
radius_neighbors(E, n, radius) ==
    [a \in Range0(n) |-> {b \in Range0(n) : 100000 - E[<<a, b>>] <= radius}]

\* build_clusters up to the neighbor search: the empty matrix, the radius check
BuildClustersStart ==
    /\ pc = "embedded"
    /\ LET n == Len0(df_exact)
           radius == 100000 - args.threshold
       IN IF n = 0
          THEN /\ clusters' = Empty0
               /\ pc' = "clustered"
               /\ UNCHANGED <<neigh_ind, dsu, i>>
          ELSE IF radius <= 0 \/ radius >= 200000
          THEN /\ pc' = "error"
               /\ UNCHANGED <<neigh_ind, dsu, i, clusters>>
          ELSE /\ neigh_ind' = radius_neighbors(embeddings, n, radius)
               /\ dsu' = DSU(n)
               /\ i' = 0
               /\ pc' = "union"
               /\ UNCHANGED clusters
    /\ UNCHANGED <<embedVars, chunkVars, normVars, findVars, pipeVars, pairVars, args, in_rows, df, first_idx_by_text, group_indices, df_exact,
                   embeddings, kept_rows_exact_idx, cluster_report, out_file,
                   report_file>>

\* one round of the union loop: i is united with its neighbors
UnionNeighbors ==
    /\ pc = "union"
    /\ i < Len0(df_exact)
    /\ \E js \in Orders(neigh_ind[i]) : dsu' = UnionAll(dsu, i, js)
    /\ i' = i + 1
    /\ UNCHANGED <<embedVars, chunkVars, normVars, findVars, pipeVars, pairVars, pc, args, in_rows, df, first_idx_by_text, group_indices,
                   df_exact, embeddings, neigh_ind, clusters, kept_rows_exact_idx,
                   cluster_report, out_file, report_file>>

\* the grouping loop and the return of build_clusters
GroupClusters ==
    /\ pc = "union"
    /\ i = Len0(df_exact)
    /\ LET g == GroupByRoot(dsu.parent, 0, Len0(df_exact), Empty0)
       IN /\ clusters' = g.clusters
          /\ dsu' = [dsu EXCEPT !.parent = g.parent]
    /\ pc' = "clustered"
    /\ UNCHANGED <<embedVars, chunkVars, normVars, findVars, pipeVars, pairVars, args, in_rows, df, first_idx_by_text, group_indices, df_exact,
                   embeddings, neigh_ind, i, kept_rows_exact_idx, cluster_report,
                   out_file, report_file>>

\* the rows of a cluster without the exact duplicates folded in
ExpandedHeadsOnly(members) ==
    sorted({df_exact[members[m]] : m \in DOMAIN members})

\* the original rows of a cluster: its members mapped to df rows, with the
\* exact duplicates of each folded in
Expanded(members) ==
    LET local_to_global == [m \in DOMAIN members |-> df_exact[members[m]]]
        fold(g) == IF g \in DOMAIN group_indices THEN Elems0(group_indices[g]) ELSE {g}
    IN sorted(UNION {fold(local_to_global[m]) : m \in DOMAIN local_to_global})

\* the representative main picks for a cluster
Representative(expanded) ==
    choose_representative(expanded, [k \in DOMAIN df |-> str(df[k].text)],
                          args.rep_strategy)

\* the loop over clusters.items()
ChooseRepresentatives ==
    /\ pc = "clustered"
    /\ cluster_report' = [c \in DOMAIN clusters |->
                             LET expanded == Expanded(clusters[c].members)
                             IN [rep |-> Representative(expanded), members |-> expanded]]
    /\ kept_rows_exact_idx' = [c \in DOMAIN clusters |-> cluster_report'[c].rep]
    /\ pc' = "chosen"
    /\ UNCHANGED <<embedVars, chunkVars, normVars, findVars, pipeVars, pairVars, args, in_rows, df, first_idx_by_text, group_indices, df_exact,
                   embeddings, neigh_ind, dsu, i, clusters, out_file, report_file>>

\* the filtered data frame built from df_exact instead of the representatives
FilteredExact(kept) ==
    Saved([k \in DOMAIN df_exact |-> df[df_exact[k]]])

\* the filtered data frame with the rows in the order the clusters gave them
FilteredUnsorted(kept) ==
    Saved([k \in DOMAIN kept |-> df[kept[k]]])

\* the rows of the filtered data frame
Filtered(kept) ==
    LET rows == sorted(Elems0(kept))
    IN Saved([k \in DOMAIN rows |-> df[rows[k]]])

SaveFiltered ==
    /\ pc = "chosen"
    /\ out_file' = Filtered(kept_rows_exact_idx)
    /\ pc' = "saved"
    /\ UNCHANGED <<embedVars, chunkVars, normVars, findVars, pipeVars, pairVars, args, in_rows, df, first_idx_by_text, group_indices, df_exact,
                   embeddings, neigh_ind, dsu, i, clusters, kept_rows_exact_idx,
                   cluster_report, report_file>>

\* the tidy report: one row per (cluster, member)
RECURSIVE Tidy(_, _)
Tidy(report, c) ==
    IF c >= Len0(report) THEN Empty0
    ELSE LET rest == Tidy(report, c + 1)
             mine == [m \in DOMAIN report[c].members |->
                         [kept_row_idx |-> report[c].rep,
                          member_row_idx |-> report[c].members[m],
                          kept_text |-> df[report[c].rep].text,
                          member_text |-> df[report[c].members[m]].text]]
         IN [k \in Range0(Len0(mine) + Len0(rest)) |->
                IF k < Len0(mine) THEN mine[k] ELSE rest[k - Len0(mine)]]

WriteReport ==
    /\ pc = "saved"
    /\ report_file' = IF args.report_path THEN Tidy(cluster_report, 0) ELSE report_file
    /\ pc' = "done"
    /\ UNCHANGED <<embedVars, chunkVars, normVars, findVars, pipeVars, pairVars, args, in_rows, df, first_idx_by_text, group_indices, df_exact,
                   embeddings, neigh_ind, dsu, i, clusters, kept_rows_exact_idx,
                   cluster_report, out_file>>

\* ------------------------------------------------------ pairwise: inputs

\* files of the input directory of a command-line run
MaxDocs == 3

\* files uploaded to the web page in one run
MaxUploads == 3

\* the names uploads come under: two uploads can have the same name
UploadNames == {1, 2}

\* what a file holds: whether its text can be read, the length of the text
\* once normalized, and the chunks the text is cut into
Contents ==
    { [readable |-> FALSE, norm_len |-> 0, chunks |-> <<>>],
      [readable |-> TRUE, norm_len |-> 100, chunks |-> <<5>>],
      [readable |-> TRUE, norm_len |-> 300, chunks |-> <<1>>],
      [readable |-> TRUE, norm_len |-> 300, chunks |-> <<2>>],
      [readable |-> TRUE, norm_len |-> 1500, chunks |-> <<3, 4>>] }

\* --threshold of a pairwise run
PairThresholds == {90000, 95000}

\* the runs with min_chars at its default and without explanations
PairArgSets ==
    [frontend : {"cli", "ui"}, threshold : PairThresholds, min_chars : {200},
     explain : {FALSE}, max_pairs : {50}, openai_key : {TRUE}]

\* the files a run can be given: the command line walks a directory in
\* sorted order, so its file names are distinct and ascending; uploads come in
\* any order and under any names
FileLists(frontend) ==
    IF frontend = "cli"
    THEN {fs \in Lists0([name : 1..MaxDocs, content : Contents], MaxDocs) :
             \A a \in DOMAIN fs, b \in DOMAIN fs : a < b => fs[a].name < fs[b].name}
    ELSE Lists0([name : UploadNames, content : Contents], MaxUploads)

\* a pairwise run is started on a directory or an upload
InitPairwise ==
    /\ pc = "p_start"
    /\ args \in PairArgSets
    /\ files \in FileLists(args.frontend)
    /\ PairwiseFresh
    /\ in_rows = Empty0
    /\ batch_size = 0
    /\ CollapseFresh
    /\ ChunkFresh
    /\ NormFresh
    /\ FindFresh
    /\ PipeFresh

Init == InitCollapse \/ InitPairwise

\* ------------------------------------------------- pairwise: operations

Cons0(x, f) == [k \in Range0(Len0(f) + 1) |-> IF k = 0 THEN x ELSE f[k - 1]]

\* collect_documents, and the upload loop of the web page: the documents
\* kept and the names warned about, from file k on
RECURSIVE Collect(_, _, _)
Collect(fs, k, min_chars) ==
    IF k >= Len0(fs) THEN [docs |-> Empty0, warned |-> {}]
    ELSE LET rest == Collect(fs, k + 1, min_chars)
             f == fs[k]
         IN IF ~f.content.readable
            THEN [docs |-> rest.docs, warned |-> rest.warned \cup {f.name}]
            ELSE IF f.content.norm_len < min_chars
            THEN rest
            ELSE [docs |-> Cons0([name |-> f.name, chunks |-> f.content.chunks], rest.docs),
                  warned |-> rest.warned]

CollectDocuments ==
    /\ pc = "p_start"
    /\ LET c == Collect(files, 0, args.min_chars)
       IN /\ docs' = c.docs
          /\ warned' = c.warned
          /\ pc' = IF Len0(c.docs) >= 2 THEN "p_collected"
                   ELSE IF args.frontend = "cli" THEN "p_exit" ELSE "p_done"
    /\ UNCHANGED <<chunkVars, normVars, findVars, pipeVars, explainVars, args,
                   collapseVars, files, doc_sims, doc_embs, pairs, csv_rows, flagged>>

\* the similarities the chunk vectors of the given documents can induce:
\* for two different chunk lists a document similarity and a greatest chunk
\* similarity; a chunk in common has similarity 1 with itself, and the mean
\* of a single chunk vector is that vector
SimOracles(chunk_lists) ==
    LET couples == {{x, y} : x \in chunk_lists, y \in chunk_lists} \ {{x} : x \in chunk_lists}
        shared(c) == \E x \in c, y \in c : x # y /\ \E a \in DOMAIN x, b \in DOMAIN y : x[a] = y[b]
        single(c) == \A x \in c : Len(x) = 1
    IN {o \in [couples -> [doc_sim : SimLevels, max_chunk_sim : SimLevels \cup {100000}]] :
           \A c \in couples :
               /\ shared(c) <=> o[c].max_chunk_sim = 100000
               /\ single(c) => o[c].doc_sim = o[c].max_chunk_sim}

\* build_embeddings, and the embedding step of the web page
BuildEmbeddings ==
    /\ pc = "p_collected"
    /\ doc_sims' \in SimOracles({docs[k].chunks : k \in DOMAIN docs})
    /\ pc' = "p_embedded"
    /\ UNCHANGED <<chunkVars, normVars, findVars, pipeVars, explainVars, args,
                   collapseVars, files, docs, warned, doc_embs, pairs, csv_rows, flagged>>

\* the dict from document name to its chunk vectors: a later document of the
\* same name replaces the earlier one
DocEmbs(records) ==
    [n \in {records[k].name : k \in DOMAIN records} |->
        LET last == CHOOSE k \in DOMAIN records :
                        /\ records[k].name = n
                        /\ \A k2 \in DOMAIN records : records[k2].name = n => k2 <= k
        IN records[last].chunks]

\* mean_pool and cosine_similarity on the chunk vectors of two documents
Scores(A_embs, B_embs) ==
    IF A_embs = B_embs THEN [doc_sim |-> 100000, max_chunk_sim |-> 100000]
    ELSE doc_sims[{A_embs, B_embs}]

\* the nested loop over a_idx < b_idx, from (a, b) on
RECURSIVE LoopPairs(_, _, _)
LoopPairs(a, b, n) ==
    IF a >= n THEN Empty0
    ELSE IF b >= n THEN LoopPairs(a + 1, a + 2, n)
    ELSE Cons0(<<a, b>>, LoopPairs(a, b + 1, n))

\* pairwise_doc_scores
pairwise_doc_scores(embs) ==
    LET names == sorted(DOMAIN embs)
        loop == LoopPairs(0, 1, Len0(names))
    IN [k \in DOMAIN loop |->
           LET A == names[loop[k][1]]
               B == names[loop[k][2]]
               sc == Scores(embs[A], embs[B])
           IN [A |-> A, B |-> B, doc_sim |-> sc.doc_sim, max_chunk_sim |-> sc.max_chunk_sim]]

\* the sort key max(x[2], x[3])
SortKey(t) == IF t.doc_sim >= t.max_chunk_sim THEN t.doc_sim ELSE t.max_chunk_sim

\* sorted(..., key=max(doc_sim, max_chunk_sim), reverse=True): descending and
\* stable
SortedByScore(ps) ==
    LET rank(k) == Cardinality({m \in DOMAIN ps : SortKey(ps[m]) > SortKey(ps[k])})
                   + Cardinality({m \in DOMAIN ps : m < k /\ SortKey(ps[m]) = SortKey(ps[k])})
    IN [r \in DOMAIN ps |-> ps[CHOOSE k \in DOMAIN ps : rank(k) = r]]

\* compute_pairs of the web page: pairwise_doc_scores followed by the sort
compute_pairs(embs) == SortedByScore(pairwise_doc_scores(embs))

\* the dict of chunk vectors and the scoring of its pairs; the mean and the
\* cosine similarity of a matrix without rows are not numbers, and scoring a
\* pair with such a document ends the run with an exception
ComputePairs ==
    /\ pc = "p_embedded"
    /\ doc_embs' = DocEmbs(docs)
    /\ IF Cardinality(DOMAIN doc_embs') >= 2 /\ \E n \in DOMAIN doc_embs' : doc_embs'[n] = <<>>
       THEN /\ pc' = "p_crashed"
            /\ UNCHANGED pairs
       ELSE /\ pairs' = IF args.frontend = "cli" THEN pairwise_doc_scores(doc_embs')
                        ELSE compute_pairs(doc_embs')
            /\ pc' = "p_scored"
    /\ UNCHANGED <<chunkVars, normVars, findVars, pipeVars, explainVars, args,
                   collapseVars, files, docs, warned, doc_sims, csv_rows, flagged>>

\* a pair is flagged with AND in place of OR
is_flag_and(doc_sim, max_chunk_sim, threshold) ==
    doc_sim >= threshold /\ max_chunk_sim >= threshold

\* a pair is flagged with the comparisons turned around
is_flag_below(doc_sim, max_chunk_sim, threshold) ==
    doc_sim <= threshold \/ max_chunk_sim <= threshold

\* the flag of a pair
is_flag(doc_sim, max_chunk_sim, threshold) ==
    doc_sim >= threshold \/ max_chunk_sim >= threshold

\* f"{x:.4f}" and round(x, 4): a score in units of 1e-4
Format4(x) == (x + 5) \div 10

\* the rows of the report, in the order they are written
CsvRows(ps, threshold) ==
    [k \in DOMAIN ps |->
        [file_a |-> ps[k].A,
         file_b |-> ps[k].B,
         doc_sim |-> Format4(ps[k].doc_sim),
         max_chunk_sim |-> Format4(ps[k].max_chunk_sim),
         flagged |-> IF is_flag(ps[k].doc_sim, ps[k].max_chunk_sim, threshold)
                     THEN "YES" ELSE "NO"]]

\* the pairs appended to `flagged`, in the order of ps
RECURSIVE Flagged(_, _, _)
Flagged(ps, k, threshold) ==
    IF k >= Len0(ps) THEN Empty0
    ELSE IF is_flag(ps[k].doc_sim, ps[k].max_chunk_sim, threshold)
         THEN Cons0(ps[k], Flagged(ps, k + 1, threshold))
         ELSE Flagged(ps, k + 1, threshold)

\* the report loop: of main over the sorted pairs, of the web page over pairs
WriteCsv ==
    /\ pc = "p_scored"
    /\ LET ordered == IF args.frontend = "cli" THEN SortedByScore(pairs) ELSE pairs
       IN /\ csv_rows' = CsvRows(ordered, args.threshold)
          /\ flagged' = LET fl == Flagged(ordered, 0, args.threshold)
                         IN IF args.frontend = "cli" THEN fl
                            ELSE [k \in DOMAIN fl |-> [A |-> fl[k].A, B |-> fl[k].B]]
    /\ pc' = IF args.explain THEN "p_reported" ELSE "p_done"
    /\ UNCHANGED <<chunkVars, normVars, findVars, pipeVars, explainVars, args,
                   collapseVars, files, docs, warned, doc_sims, doc_embs, pairs>>

\* ------------------------------------------------ pairwise: explanations

\* --max-pairs is any integer; "Max pairs to explain" of the web page is at
\* least 1
MaxPairs(frontend) == IF frontend = "cli" THEN {-1, 1, 2} ELSE {1, 2}

\* f[:k] of a list
take(f, k) ==
    LET e == IF k >= 0 THEN (IF k < Len0(f) THEN k ELSE Len0(f))
             ELSE (IF Len0(f) + k > 0 THEN Len0(f) + k ELSE 0)
    IN [m \in Range0(e) |-> f[m]]

\* the loop of the web page over the n flagged pairs, from pair k on: it
\* stops once `count` explanations have succeeded; ok[k] tells whether the
\* request for pair k succeeds
RECURSIVE explain_loop(_, _, _, _, _)
explain_loop(n, ok, k, count, max_pairs) ==
    IF k >= n \/ count >= max_pairs THEN [requested |-> k, count |-> count]
    ELSE explain_loop(n, ok, k + 1, IF ok[k] THEN count + 1 ELSE count, max_pairs)

\* the names of a pair
Names(t) == [A |-> t.A, B |-> t.B]

\* the optional explanations: main asks for one for each of
\* flagged[:max_pairs], and a request that fails is written as an error line
\* and counted; the web page needs the API key and counts the requests that
\* succeed
Explain ==
    /\ pc = "p_reported"
    /\ IF args.frontend = "cli"
       THEN LET asked == take(flagged, args.max_pairs)
            IN /\ explained' = [k \in DOMAIN asked |-> Names(asked[k])]
               /\ n_done' = Len0(asked)
       ELSE IF Len0(flagged) = 0 \/ ~args.openai_key
       THEN UNCHANGED <<explained, n_done>>
       ELSE \E ok \in [DOMAIN flagged -> BOOLEAN] :
               LET loop == explain_loop(Len0(flagged), ok, 0, 0, args.max_pairs)
               IN /\ explained' = [k \in Range0(loop.requested) |-> Names(flagged[k])]
                  /\ n_done' = loop.count
    /\ pc' = "p_done"
    /\ UNCHANGED <<chunkVars, normVars, findVars, pipeVars, args, collapseVars, files,
                   docs, warned, doc_sims, doc_embs, pairs, csv_rows, flagged>>

\* ---------------------------------------- pairwise runs with their options

\* a document whose text is empty once normalized
EmptyDocument == [readable |-> TRUE, norm_len |-> 0, chunks |-> <<>>]

\* what the files of a run with options hold
OptionContents ==
    { EmptyDocument,
      [readable |-> TRUE, norm_len |-> 300, chunks |-> <<1>>],
      [readable |-> TRUE, norm_len |-> 300, chunks |-> <<2>>],
      [readable |-> TRUE, norm_len |-> 1500, chunks |-> <<3, 4>>] }

\* --min-chars and "Min chars to include doc" can be 0; explanations can be
\* asked for
OptionArgSets ==
    UNION {[frontend : {fe}, threshold : {90000}, min_chars : {0, 200},
            explain : BOOLEAN, max_pairs : MaxPairs(fe),
            openai_key : IF fe = "cli" THEN {TRUE} ELSE BOOLEAN] : fe \in {"cli", "ui"}}

\* the files of a run with options: files of a directory, or uploads in the
\* order of their names, all names different
OptionFileLists ==
    {fs \in Lists0([name : 1..MaxDocs, content : OptionContents], MaxDocs) :
        \A a \in DOMAIN fs, b \in DOMAIN fs : a < b => fs[a].name < fs[b].name}

\* a pairwise run is started with options
InitPairwiseOptions ==
    /\ pc = "p_start"
    /\ args \in OptionArgSets
    /\ files \in OptionFileLists
    /\ PairwiseFresh
    /\ in_rows = Empty0
    /\ batch_size = 0
    /\ CollapseFresh
    /\ ChunkFresh
    /\ NormFresh
    /\ FindFresh
    /\ PipeFresh

NextPairwiseOptions ==
    \/ CollectDocuments
    \/ BuildEmbeddings
    \/ ComputePairs
    \/ WriteCsv
    \/ Explain

SpecPairwiseOptions == InitPairwiseOptions /\ [][NextPairwiseOptions]_vars

\* ----------------------------------------------- build_clusters by itself

\* thresholds build_clusters can be called with: radius 2, 0.8, 0.1, 0.05, 0
\* and -0.1
BuildThresholds == {-100000, 20000, 90000, 95000, 100000, 110000}

\* build_clusters is called on an embeddings matrix of any number of rows
InitBuildClusters ==
    /\ pc = "embedded"
    /\ args \in [threshold : BuildThresholds]
    /\ \E n \in 0..MaxRows :
          /\ df_exact = [k \in Range0(n) |-> k]
          /\ embeddings \in SimMatrices(n)
    /\ in_rows = Empty0
    /\ df = Empty0
    /\ first_idx_by_text = Empty0
    /\ group_indices = Empty0
    /\ batch_size = 0
    /\ batch_at = 0
    /\ vecs = 0
    /\ provider_called = FALSE
    /\ failed_batch = 0
    /\ neigh_ind = Empty0
    /\ dsu = DSU(0)
    /\ i = 0
    /\ clusters = Empty0
    /\ kept_rows_exact_idx = Empty0
    /\ cluster_report = Empty0
    /\ out_file = Unwritten
    /\ report_file = Unwritten
    /\ files = Empty0
    /\ PairwiseFresh
    /\ ChunkFresh
    /\ NormFresh
    /\ FindFresh
    /\ PipeFresh

NextBuildClusters == BuildClustersStart \/ UnionNeighbors \/ GroupClusters

SpecBuildClusters == InitBuildClusters /\ [][NextBuildClusters]_vars

\* ------------------------------------------------------- chunk_paragraphs

\* paragraphs of one call of chunk_paragraphs
MaxParas == 2

\* a character of a text: its place in the input (paragraph and position, 0
\* and 0 for a character of a separator) and whether the chunk holding it got
\* it as the overlap carried from the chunk before
Char(c, para, pos) == [ch |-> c, para |-> para, pos |-> pos, carried |-> FALSE]

\* the paragraphs split_into_paragraphs returns are stripped and non-empty
ParagraphTexts ==
    { <<"a">>,
      <<"a", "b">>,
      <<"a", " ", "b">>,
      <<"a", "b", " ", "c", "d">>,
      <<"a", "b", "c", "d", "e">> }

\* chunk_size and overlap are integers the callers pass unchecked
ChunkSizes == -1..3

Overlaps == -1..3

ParagraphLists ==
    UNION {{[k \in 1..n |-> [j \in 1..Len(ps[k]) |-> Char(ps[k][j], k, j)]] :
               ps \in [1..n -> ParagraphTexts]} : n \in 0..MaxParas}

\* s[:k]
slice_to(s, k) ==
    LET e == IF k >= 0 THEN (IF k < Len(s) THEN k ELSE Len(s))
             ELSE (IF Len(s) + k > 0 THEN Len(s) + k ELSE 0)
    IN SubSeq(s, 1, e)

\* s[k:]
slice_from(s, k) ==
    LET b == IF k >= 0 THEN (IF k < Len(s) THEN k ELSE Len(s))
             ELSE (IF Len(s) + k > 0 THEN Len(s) + k ELSE 0)
    IN SubSeq(s, b + 1, Len(s))

\* the separator "\n\n"
separator == LET nl == Char("\n", 0, 0) IN <<nl, nl>>

\* no tail is carried
carry_nothing(s) == <<>>

\* the tail of a chunk as the next chunk holds it
carry(s) == [j \in DOMAIN s |-> [s[j] EXCEPT !.carried = TRUE]]

\* the remainder that loses the character at the cut
remainder_after_cut(p, size) == slice_from(p, size + 1)

\* p[chunk_size:]
remainder_of(p, size) == slice_from(p, size)

\* p[:chunk_size]
head_of(p, size) == slice_to(p, size)

\* one round of the loop over the paragraphs
chunk_step(st, p, size, ov) ==
    IF st.cur_len + Len(p) + 1 <= size
    THEN [chunks |-> st.chunks,
          cur |-> Append(st.cur, p),
          cur_len |-> st.cur_len + Len(p) + 1]
    ELSE IF st.cur # <<>>
    THEN LET joined == join(separator, st.cur)
         IN IF ov > 0
            THEN LET tail == carry(slice_from(joined, -ov))
                 IN [chunks |-> Append(st.chunks, joined),
                     cur |-> <<tail, p>>,
                     cur_len |-> Len(tail) + Len(p) + 1]
            ELSE [chunks |-> Append(st.chunks, joined),
                  cur |-> <<p>>,
                  cur_len |-> Len(p) + 1]
    ELSE IF ov > 0
         THEN LET tail == carry(slice_from(head_of(p, size), -ov))
                  remainder == remainder_of(p, size)
              IN [chunks |-> Append(st.chunks, head_of(p, size)),
                  cur |-> <<tail, remainder>>,
                  cur_len |-> Len(tail) + Len(remainder) + 1]
         ELSE [chunks |-> Append(st.chunks, head_of(p, size)),
               cur |-> <<remainder_of(p, size)>>,
               cur_len |-> Len(p) - size]

RECURSIVE lstrip(_)
lstrip(s) == IF s # <<>> /\ isspace(Head(s).ch) THEN lstrip(Tail(s)) ELSE s

RECURSIVE rstrip(_)
rstrip(s) == IF s # <<>> /\ isspace(s[Len(s)].ch) THEN rstrip(SubSeq(s, 1, Len(s) - 1))
             ELSE s

\* c.strip()
strip(s) == rstrip(lstrip(s))

\* the chunks returned as they were built
tidy_none(cs) == cs

\* the final tidy: [c.strip() for c in chunks if c.strip()]
RECURSIVE tidy(_)
tidy(cs) == IF cs = <<>> THEN <<>>
            ELSE IF strip(Head(cs)) # <<>> THEN <<strip(Head(cs))>> \o tidy(Tail(cs))
            ELSE tidy(Tail(cs))

\* chunk_paragraphs is called on a list of paragraphs
InitChunk ==
    /\ pc = "c_loop"
    /\ paragraphs \in ParagraphLists
    /\ chunk_size \in ChunkSizes
    /\ overlap \in Overlaps
    /\ args = [chunk_size |-> chunk_size, overlap |-> overlap]
    /\ chunks = <<>>
    /\ cur = <<>>
    /\ cur_len = 0
    /\ para_at = 1
    /\ returned = <<>>
    /\ in_rows = Empty0
    /\ batch_size = 0
    /\ CollapseFresh
    /\ files = Empty0
    /\ PairwiseFresh
    /\ NormFresh
    /\ FindFresh
    /\ PipeFresh

ChunkParagraph ==
    /\ pc = "c_loop"
    /\ para_at <= Len(paragraphs)
    /\ LET st == chunk_step([chunks |-> chunks, cur |-> cur, cur_len |-> cur_len],
                            paragraphs[para_at], chunk_size, overlap)
       IN /\ chunks' = st.chunks
          /\ cur' = st.cur
          /\ cur_len' = st.cur_len
    /\ para_at' = para_at + 1
    /\ UNCHANGED <<pc, args, collapseVars, pairVars, normVars, findVars, pipeVars, paragraphs, chunk_size, overlap,
                   returned>>

\* the chunk under construction is appended twice
ChunkReturnFlushTwice ==
    /\ pc = "c_loop"
    /\ para_at > Len(paragraphs)
    /\ chunks' = IF cur # <<>>
                 THEN chunks \o <<join(separator, cur), join(separator, cur)>>
                 ELSE chunks
    /\ returned' = tidy(chunks')
    /\ pc' = "c_done"
    /\ UNCHANGED <<args, collapseVars, pairVars, normVars, findVars, pipeVars, paragraphs, chunk_size, overlap, cur,
                   cur_len, para_at>>

\* the last chunk, the final tidy and the return
ChunkReturn ==
    /\ pc = "c_loop"
    /\ para_at > Len(paragraphs)
    /\ chunks' = IF cur # <<>> THEN Append(chunks, join(separator, cur)) ELSE chunks
    /\ returned' = tidy(chunks')
    /\ pc' = "c_done"
    /\ UNCHANGED <<args, collapseVars, pairVars, normVars, findVars, pipeVars, paragraphs, chunk_size, overlap, cur,
                   cur_len, para_at>>

NextChunk == ChunkParagraph \/ ChunkReturn

SpecChunk == InitChunk /\ [][NextChunk]_vars

\* the loop and the return are plain sequential code: a step that can be
\* taken is taken
SpecChunkLive == SpecChunk /\ WF_vars(NextChunk)

\* --------------------------------------------- normalize_text of documents

\* characters of the text of a document
MaxText == 5

\* the characters a text is made of: a letter, the space, the tab, the
\* carriage return and the newline
Alphabet == {"a", " ", "\t", "\r", "\n"}

RawTexts == UNION {[1..n -> Alphabet] : n \in 0..MaxText}

\* s.replace('\r', '\n')
replace_cr(t) == [k \in 1..Len(t) |-> IF t[k] = "\r" THEN "\n" ELSE t[k]]

\* t without the run of characters of S it starts with
RECURSIVE SkipRun(_, _)
SkipRun(t, S) == IF t # <<>> /\ Head(t) \in S THEN SkipRun(Tail(t), S) ELSE t

\* re.sub(r'[ ]+', ' ', s): the tab is left out of the character class
RECURSIVE collapse_spaces_only(_)
collapse_spaces_only(t) ==
    IF t = <<>> THEN <<>>
    ELSE IF Head(t) = " "
         THEN <<" ">> \o collapse_spaces_only(SkipRun(t, {" "}))
         ELSE <<Head(t)>> \o collapse_spaces_only(Tail(t))

\* re.sub(r'[ \t]+', ' ', s)
RECURSIVE collapse_blanks(_)
collapse_blanks(t) ==
    IF t = <<>> THEN <<>>
    ELSE IF Head(t) \in {" ", "\t"}
         THEN <<" ">> \o collapse_blanks(SkipRun(t, {" ", "\t"}))
         ELSE <<Head(t)>> \o collapse_blanks(Tail(t))

\* re.sub(r'\n{3,}', '\n\n', s)
RECURSIVE collapse_newlines(_)
collapse_newlines(t) ==
    IF t = <<>> THEN <<>>
    ELSE IF Head(t) = "\n"
         THEN LET rest == SkipRun(t, {"\n"})
                  run == Len(t) - Len(rest)
              IN (IF run >= 3 THEN <<"\n", "\n">> ELSE SubSeq(t, 1, run))
                     \o collapse_newlines(rest)
         ELSE <<Head(t)>> \o collapse_newlines(Tail(t))

\* s.strip() of a text
RECURSIVE strip_text(_)
strip_text(t) ==
    IF t # <<>> /\ isspace(Head(t)) THEN strip_text(Tail(t))
    ELSE IF t # <<>> /\ isspace(t[Len(t)]) THEN strip_text(SubSeq(t, 1, Len(t) - 1))
    ELSE t

\* normalize_text of Deduplication.py and of the web page
normalize_document_text(t) ==
    strip_text(collapse_newlines(collapse_blanks(replace_cr(t))))

\* a text has been read from a document
InitNormalize ==
    /\ pc = "n_read"
    /\ raw \in RawTexts
    /\ norm = <<>>
    /\ args = [min_chars |-> 0]
    /\ in_rows = Empty0
    /\ batch_size = 0
    /\ CollapseFresh
    /\ files = Empty0
    /\ PairwiseFresh
    /\ ChunkFresh
    /\ FindFresh
    /\ PipeFresh

NormalizeText ==
    /\ pc = "n_read"
    /\ norm' = normalize_document_text(raw)
    /\ pc' = "n_normalized"
    /\ UNCHANGED <<args, collapseVars, pairVars, chunkVars, findVars, pipeVars, raw>>

NextNormalize == NormalizeText

SpecNormalize == InitNormalize /\ [][NextNormalize]_vars

\* ------------------------------------------------------- the DSU by itself

\* elements of a DSU
MaxElems == 4

\* the element k steps up the parent list from e
RECURSIVE Up(_, _, _)
Up(parent, e, k) == IF k = 0 THEN e ELSE Up(parent, parent[e], k - 1)

\* the sets of a DSU: the elements that lead to the same element after as
\* many steps as there are elements
Sets(parent) ==
    LET n == Len0(parent)
    IN {{e2 \in DOMAIN parent : Up(parent, e2, n) = Up(parent, e, n)} : e \in DOMAIN parent}

\* a DSU has been made for n elements
InitDSU ==
    /\ pc = "d_idle"
    /\ \E n \in 1..MaxElems : dsu = DSU(n)
    /\ FindFresh
    /\ args = [threshold |-> 90000]
    /\ in_rows = Empty0
    /\ df = Empty0
    /\ first_idx_by_text = Empty0
    /\ group_indices = Empty0
    /\ df_exact = Empty0
    /\ batch_size = 0
    /\ batch_at = 0
    /\ vecs = 0
    /\ provider_called = FALSE
    /\ failed_batch = 0
    /\ embeddings = Empty0
    /\ neigh_ind = Empty0
    /\ i = 0
    /\ clusters = Empty0
    /\ kept_rows_exact_idx = Empty0
    /\ cluster_report = Empty0
    /\ out_file = Unwritten
    /\ report_file = Unwritten
    /\ files = Empty0
    /\ PairwiseFresh
    /\ ChunkFresh
    /\ NormFresh
    /\ PipeFresh

dsuRest == <<args, in_rows, df, first_idx_by_text, group_indices, df_exact, embedVars,
             embeddings, neigh_ind, i, clusters, kept_rows_exact_idx, cluster_report,
             out_file, report_file, pairVars, chunkVars, normVars, pipeVars>>

\* dsu.union(a, b)
DsuUnion ==
    /\ pc = "d_idle"
    /\ \E a \in DOMAIN dsu.parent, b \in DOMAIN dsu.parent : dsu' = union(dsu, a, b)
    /\ UNCHANGED <<pc, findVars, dsuRest>>

\* dsu.find(x) is called
DsuFindCall ==
    /\ pc = "d_idle"
    /\ \E e \in DOMAIN dsu.parent :
          /\ find_of' = e
          /\ find_at' = e
    /\ members_before' = Sets(dsu.parent)
    /\ pc' = "d_find"
    /\ UNCHANGED <<dsu, dsuRest>>

\* one round of the loop of find
DsuFindStep ==
    /\ pc = "d_find"
    /\ dsu.parent[find_at] # find_at
    /\ dsu' = [dsu EXCEPT !.parent[find_at] = dsu.parent[dsu.parent[find_at]]]
    /\ find_at' = dsu'.parent[find_at]
    /\ UNCHANGED <<pc, find_of, members_before, dsuRest>>

\* find returns x
DsuFindReturn ==
    /\ pc = "d_find"
    /\ dsu.parent[find_at] = find_at
    /\ pc' = "d_idle"
    /\ UNCHANGED <<dsu, findVars, dsuRest>>

NextDSU == DsuUnion \/ DsuFindCall \/ DsuFindStep \/ DsuFindReturn

\* the loop of find is sequential code: a round that can be taken is taken
SpecDSU == InitDSU /\ [][NextDSU]_vars /\ WF_vars(DsuFindStep \/ DsuFindReturn)

\* ------------------------------------------------------ the pipeline runner

\* raw records given to the pipeline runner
MaxRecords == 2

\* dataingestion, datadeduplication, dataquality, datanormalization,
\* datastorage and dataconsumption, in the order run() goes through them
NStages == 6

\* http.retry_attempts of the configuration
RetryAttempts == {-1, 0, 1, 2}

\* source_record_id of a raw record
RecordIds == {1, 2}

\* the configurations: --simulate, http.retry_attempts, and the stages that
\* have no entry under `services` (at most one)
Configs ==
    [simulate : BOOLEAN,
     retry_attempts : RetryAttempts,
     missing : {{}} \cup {{st} : st \in 1..NStages}]

\* self._retries
retries_of(cfg) == IF cfg.retry_attempts < 0 THEN 0 ELSE cfg.retry_attempts

\* the attempts of `for attempt in range(1, self._retries + 2)`
max_attempts(retries) == retries + 1

\* the payloads a stage posts: ingestion one per raw record, the later
\* stages one per distinct source_record_id
PayloadsOf(st, records) ==
    IF st = 1 THEN Len(records)
    ELSE Cardinality({records[k] : k \in DOMAIN records})

\* main has built a runner and calls run()
InitPipeline ==
    /\ pc = "r_loop"
    /\ config \in Configs
    /\ raw_records \in UNION {[1..n -> RecordIds] : n \in 0..MaxRecords}
    /\ stage = 1
    /\ payload_at = 1
    /\ payloads = PayloadsOf(1, raw_records)
    /\ outcomes = <<>>
    /\ posts = {}
    /\ args = [simulate |-> config.simulate]
    /\ in_rows = Empty0
    /\ batch_size = 0
    /\ CollapseFresh
    /\ files = Empty0
    /\ PairwiseFresh
    /\ ChunkFresh
    /\ NormFresh
    /\ FindFresh

pipeRest == <<args, collapseVars, pairVars, chunkVars, normVars, findVars>>

\* _post is called on the next payload of the stage: in simulate mode it
\* returns at once, without configuration for the service it raises
\* PipelineError, otherwise it enters its loop
CallPost ==
    /\ pc = "r_loop"
    /\ payload_at <= payloads
    /\ outcomes' = <<>>
    /\ IF config.simulate
       THEN /\ payload_at' = payload_at + 1
            /\ pc' = "r_loop"
       ELSE IF stage \in config.missing
       THEN /\ pc' = "r_failed"
            /\ UNCHANGED payload_at
       ELSE /\ pc' = "r_post"
            /\ UNCHANGED payload_at
    /\ UNCHANGED <<config, raw_records, stage, payloads, posts, pipeRest>>

\* an attempt of a loop that goes on after a request has succeeded, as long as
\* attempts are left
PostAttemptKeepsOn ==
    /\ pc = "r_post"
    /\ Len(outcomes) < max_attempts(retries_of(config))
    /\ posts' = posts \cup {stage}
    /\ \E o \in {"ok", "request_exception", "other_exception"} :
          /\ outcomes' = Append(outcomes, o)
          /\ IF o = "ok" /\ Len(outcomes') > retries_of(config)
             THEN /\ payload_at' = payload_at + 1
                  /\ pc' = "r_loop"
             ELSE /\ UNCHANGED payload_at
                  /\ pc' = IF o = "other_exception" THEN "r_crashed"
                           ELSE IF Len(outcomes') <= retries_of(config) THEN "r_post"
                           ELSE "r_failed"
    /\ UNCHANGED <<config, raw_records, stage, payloads, pipeRest>>

\* one attempt of the loop of _post: the request succeeds and _post returns;
\* or it raises a RequestException, and _post sleeps and goes on, or after
\* the last attempt raises PipelineError, which ends run() and main; or it
\* raises something else, which leaves _post, run() and main as it is
PostAttempt ==
    /\ pc = "r_post"
    /\ Len(outcomes) < max_attempts(retries_of(config))
    /\ posts' = posts \cup {stage}
    /\ \E o \in {"ok", "request_exception", "other_exception"} :
          /\ outcomes' = Append(outcomes, o)
          /\ IF o = "ok"
             THEN /\ payload_at' = payload_at + 1
                  /\ pc' = "r_loop"
             ELSE /\ UNCHANGED payload_at
                  /\ pc' = IF o = "other_exception" THEN "r_crashed"
                           ELSE IF Len(outcomes') <= retries_of(config) THEN "r_post"
                           ELSE "r_failed"
    /\ UNCHANGED <<config, raw_records, stage, payloads, pipeRest>>

\* the loop of a stage is over: run() goes on to the next stage, or returns
StageDone ==
    /\ pc = "r_loop"
    /\ payload_at > payloads
    /\ IF stage < NStages
       THEN /\ stage' = stage + 1
            /\ payload_at' = 1
            /\ payloads' = PayloadsOf(stage + 1, raw_records)
            /\ UNCHANGED pc
       ELSE /\ pc' = "r_done"
            /\ UNCHANGED <<stage, payload_at, payloads>>
    /\ UNCHANGED <<config, raw_records, outcomes, posts, pipeRest>>

NextPipeline == CallPost \/ PostAttempt \/ StageDone

SpecPipeline == InitPipeline /\ [][NextPipeline]_vars

Next ==
    \/ LoadAndFilter
    \/ PreCollapse
    \/ EmbedBatch
    \/ EmbedBatchFails
    \/ BuildClustersStart
    \/ UnionNeighbors
    \/ GroupClusters
    \/ ChooseRepresentatives
    \/ SaveFiltered
    \/ WriteReport
    \/ CollectDocuments
    \/ BuildEmbeddings
    \/ ComputePairs
    \/ WriteCsv

Spec == Init /\ [][Next]_vars

\* the cluster-and-collapse runs by themselves
NextCollapse ==
    \/ LoadAndFilter
    \/ PreCollapse
    \/ EmbedBatch
    \/ EmbedBatchFails
    \/ BuildClustersStart
    \/ UnionNeighbors
    \/ GroupClusters
    \/ ChooseRepresentatives
    \/ SaveFiltered
    \/ WriteReport

SpecCollapse == InitCollapse /\ [][NextCollapse]_vars

\* the pairwise runs by themselves
NextPairwise ==
    \/ CollectDocuments
    \/ BuildEmbeddings
    \/ ComputePairs
    \/ WriteCsv

SpecPairwise == InitPairwise /\ [][NextPairwise]_vars

\* ------------------------------------------------------------------ claims

\* build_clusters has returned its clusters
Clustered == pc \in {"clustered", "chosen", "saved"} \/ (pc = "done" /\ Len0(df) > 0)

\* the representatives have been chosen
Chosen == pc \in {"chosen", "saved"} \/ (pc = "done" /\ Len0(df) > 0)

\* items a and b of the embedded set are within radius 1 - threshold
Within(a, b) == 100000 - embeddings[<<a, b>>] <= 100000 - args.threshold

Members(c) == Elems0(clusters[c].members)

\* the rows of df that belong to cluster c: those whose normalized text is
\* the text of one of its members
ClusterRows(c) ==
    {k \in DOMAIN df : \E m \in Members(c) : df[k]._text_norm = df[df_exact[m]]._text_norm}

\* the input rows the filtered output holds
OutSrc == {out_file[k].src : k \in DOMAIN out_file}

\* C1: grouping is transitive: when item a is within radius of b and b within
\* radius of c, build_clusters puts a, b and c in one cluster, also when a and
\* c are not within radius of each other.
C1_Transitive ==
    Clustered =>
        \A a \in DOMAIN df_exact, b \in DOMAIN df_exact, c \in DOMAIN df_exact :
            (Within(a, b) /\ Within(b, c)) =>
                \E k \in DOMAIN clusters : {a, b, c} \subseteq Members(k)

C1_Witness ==
    /\ pc = "clustered"
    /\ \E a \in DOMAIN df_exact, b \in DOMAIN df_exact, c \in DOMAIN df_exact :
          /\ Within(a, b) /\ Within(b, c) /\ ~Within(a, c)
          /\ \E k \in DOMAIN clusters : {a, b, c} \subseteq Members(k)

\* C2: the filtered output holds exactly one row per cluster: as many rows as
\* clusters, and of the rows of each cluster exactly one.
C2_OneRowPerCluster ==
    (pc \in {"saved", "done"}) =>
        /\ Len0(out_file) = Len0(clusters)
        /\ \A c \in DOMAIN clusters :
              /\ cluster_report[c].rep \in ClusterRows(c)
              /\ Cardinality({k \in DOMAIN out_file :
                     \E r \in ClusterRows(c) : out_file[k].src = df[r].src}) = 1

C2_Witness ==
    /\ pc = "done"
    /\ Len0(clusters) = 2
    /\ \E c \in DOMAIN clusters : Cardinality(ClusterRows(c)) = 2

\* C3: every input row with non-empty normalized text is a member in exactly
\* one row of the cluster report, paired with the kept row of its own cluster;
\* a row that is not kept is absent from the filtered output.
C3_ReportCoversRows ==
    (pc = "done" /\ report_file # Unwritten) =>
        \A r \in DOMAIN in_rows :
            Len(normalize_text(in_rows[r])) > 0 =>
                \E k \in DOMAIN report_file :
                    LET member == report_file[k].member_row_idx
                        kept == report_file[k].kept_row_idx
                    IN /\ df[member].src = r
                       /\ \A k2 \in DOMAIN report_file :
                              df[report_file[k2].member_row_idx].src = r => k2 = k
                       /\ \E c \in DOMAIN clusters : {member, kept} \subseteq ClusterRows(c)
                       /\ df[kept].src \in OutSrc
                       /\ (member # kept) => (r \notin OutSrc)

C3_Witness ==
    /\ pc = "done"
    /\ report_file # Unwritten
    /\ \E k \in DOMAIN report_file :
          /\ report_file[k].member_row_idx # report_file[k].kept_row_idx
          /\ df[report_file[k].member_row_idx]._text_norm
                 = df[report_file[k].kept_row_idx]._text_norm
    /\ \E k \in DOMAIN report_file :
          df[report_file[k].member_row_idx]._text_norm
              # df[report_file[k].kept_row_idx]._text_norm

\* C4: two rows with the same normalized text are in one exact-duplicate
\* bucket, keyed by the first row with that text; they are in the same final
\* cluster, and at most one of them is kept.
C4_ExactDuplicatesTogether ==
    \A r1 \in DOMAIN df, r2 \in DOMAIN df :
        (r1 < r2 /\ df[r1]._text_norm = df[r2]._text_norm) =>
            /\ (pc \notin {"start", "loaded"}) =>
                   \E h \in DOMAIN group_indices :
                       /\ {r1, r2} \subseteq Elems0(group_indices[h])
                       /\ df[h]._text_norm = df[r1]._text_norm
                       /\ \A k \in DOMAIN df : df[k]._text_norm = df[r1]._text_norm => h <= k
            /\ Chosen =>
                   \E c \in DOMAIN cluster_report :
                       {r1, r2} \subseteq Elems0(cluster_report[c].members)
            /\ (pc \in {"saved", "done"}) => ~({df[r1].src, df[r2].src} \subseteq OutSrc)

C4_Witness ==
    /\ pc = "done"
    /\ \E r1 \in DOMAIN df, r2 \in DOMAIN df, r3 \in DOMAIN df :
          /\ r1 < r2
          /\ df[r1]._text_norm = df[r2]._text_norm
          /\ df[r1].text # df[r2].text
          /\ df[r3]._text_norm # df[r1]._text_norm
          /\ \E c \in DOMAIN cluster_report :
                {r1, r2, r3} \subseteq Elems0(cluster_report[c].members)

\* C5 as stated: with the longest policy no member of a cluster has a
\* normalized text strictly longer than that of the representative.
C5_LongestNormalized ==
    (Chosen /\ args.rep_strategy = "longest") =>
        \A c \in DOMAIN clusters : \A m \in ClusterRows(c) :
            Len(df[m]._text_norm) <= Len(df[cluster_report[c].rep]._text_norm)

\* C5 amended: with the longest policy no member of a cluster has a text
\* (the text column as a string, not normalized) strictly longer than that of
\* the representative.
C5_LongestRaw ==
    (Chosen /\ args.rep_strategy = "longest") =>
        \A c \in DOMAIN clusters : \A m \in ClusterRows(c) :
            Len(str(df[m].text)) <= Len(str(df[cluster_report[c].rep].text))

C5_Witness ==
    /\ Chosen
    /\ args.rep_strategy = "longest"
    /\ \E c \in DOMAIN clusters : \E m \in ClusterRows(c) :
          /\ m < cluster_report[c].rep
          /\ Len(str(df[m].text)) < Len(str(df[cluster_report[c].rep].text))

\* the members of cluster c whose text, measured by len, is longest
Longest(c, len(_)) == {m \in ClusterRows(c) : \A m2 \in ClusterRows(c) : len(m2) <= len(m)}

NormLen(m) == Len(df[m]._text_norm)

RawLen(m) == Len(str(df[m].text))

\* C6 as stated, the length being that of C5: with the longest policy the
\* representative is the lowest row among the members of maximal
\* normalized-text length.
C6_TieLowestNormalized ==
    (Chosen /\ args.rep_strategy = "longest") =>
        \A c \in DOMAIN clusters : cluster_report[c].rep = Min(Longest(c, NormLen))

\* C6 amended: with the longest policy the representative is the lowest row
\* among the members whose text column, as a string, is longest.
C6_TieLowestRaw ==
    (Chosen /\ args.rep_strategy = "longest") =>
        \A c \in DOMAIN clusters : cluster_report[c].rep = Min(Longest(c, RawLen))

C6_Witness ==
    /\ Chosen
    /\ args.rep_strategy = "longest"
    /\ \E c \in DOMAIN clusters :
          /\ Cardinality(Longest(c, RawLen)) >= 2
          /\ \E m \in ClusterRows(c) : m < cluster_report[c].rep

\* C7: with the first policy the representative is the lowest row of the
\* cluster, the exact duplicates folded back in counted.
C7_FirstLowest ==
    (Chosen /\ args.rep_strategy = "first") =>
        \A c \in DOMAIN clusters : cluster_report[c].rep = Min(ClusterRows(c))

C7_Witness ==
    /\ Chosen
    /\ args.rep_strategy = "first"
    /\ \E c \in DOMAIN clusters :
          /\ Cardinality(Members(c)) >= 2
          /\ Cardinality(ClusterRows(c)) > Cardinality(Members(c))
          /\ \E m \in ClusterRows(c) : RawLen(m) > RawLen(cluster_report[c].rep)

\* the scores of the pair of documents named A and B
PairScores(A, B) == Scores(doc_embs[A], doc_embs[B])

\* the pairwise report has been written
Reported == pc = "p_done" /\ csv_rows # Unwritten

\* C8: a pair of the pairwise report is flagged if and only if its doc_sim or
\* its max_chunk_sim reaches the threshold, whatever the flags of other pairs;
\* the pairs collected as flagged are those of the rows flagged.
C8_FlagIffEitherScore ==
    Reported =>
        /\ \A k \in DOMAIN csv_rows :
              LET sc == PairScores(csv_rows[k].file_a, csv_rows[k].file_b)
              IN (csv_rows[k].flagged = "YES") <=>
                     (sc.doc_sim >= args.threshold \/ sc.max_chunk_sim >= args.threshold)
        /\ {<<flagged[k].A, flagged[k].B>> : k \in DOMAIN flagged}
               = {<<csv_rows[k].file_a, csv_rows[k].file_b>> :
                      k \in {m \in DOMAIN csv_rows : csv_rows[m].flagged = "YES"}}

\* a pair with doc_sim above and max_chunk_sim below the threshold is flagged,
\* and a pair is unflagged while each of its documents is flagged with a third
C8_Witness ==
    /\ Reported
    /\ \E k \in DOMAIN csv_rows :
          LET sc == PairScores(csv_rows[k].file_a, csv_rows[k].file_b)
          IN /\ sc.doc_sim >= args.threshold
             /\ sc.max_chunk_sim < args.threshold
             /\ csv_rows[k].flagged = "YES"
    /\ \E x \in DOMAIN csv_rows, y \in DOMAIN csv_rows, z \in DOMAIN csv_rows :
          /\ csv_rows[x].flagged = "NO"
          /\ csv_rows[y].flagged = "YES"
          /\ csv_rows[z].flagged = "YES"
          /\ csv_rows[y].file_a = csv_rows[x].file_a
          /\ csv_rows[z].file_a = csv_rows[x].file_b
          /\ csv_rows[y].file_b = csv_rows[z].file_b

\* the tuples of `pairs` for documents d1 and d2 of `docs`
TuplesOf(d1, d2) ==
    {k \in DOMAIN pairs : /\ {pairs[k].A, pairs[k].B} = {docs[d1].name, docs[d2].name}
                          /\ pairs[k].A # pairs[k].B}

\* C9: for the N documents that pass filtering there is exactly one score
\* tuple per unordered pair of distinct documents, N(N-1)/2 in all, each with
\* A before B in the order of the document names.
C9_OneTuplePerPair ==
    (pc \in {"p_scored", "p_done"}) =>
        /\ 2 * Len0(pairs) = Len0(docs) * (Len0(docs) - 1)
        /\ \A k \in DOMAIN pairs : pairs[k].A < pairs[k].B
        /\ \A d1 \in DOMAIN docs, d2 \in DOMAIN docs :
              (d1 < d2 /\ Len0(docs) >= 2) => Cardinality(TuplesOf(d1, d2)) = 1

\* the three-input case of C10 for a cluster-and-collapse run: rows 0 and 1
\* hold the same bytes, row 2 another text whose vector is not within radius
C10_Rows ==
    /\ pc \in {"clustered", "chosen", "saved", "done"}
    /\ args.threshold = 90000
    /\ Len0(in_rows) = 3
    /\ in_rows[0] = in_rows[1]
    /\ \A r \in DOMAIN in_rows : Len(normalize_text(in_rows[r])) > 0
    /\ normalize_text(in_rows[2]) # normalize_text(in_rows[0])
    /\ embeddings[<<0, 1>>] < args.threshold

\* the three-document case of C10 for a pairwise run from the command line:
\* documents 0 and 1 hold the same text, document 2 another one, unrelated
C10_Docs ==
    /\ Reported
    /\ args.frontend = "cli"
    /\ args.threshold = 90000
    /\ Len0(files) = 3
    /\ Len0(docs) = 3
    /\ files[0].content = files[1].content
    /\ files[2].content # files[0].content
    /\ PairScores(files[0].name, files[2].name).doc_sim < args.threshold
    /\ PairScores(files[0].name, files[2].name).max_chunk_sim < args.threshold

FlagOf(A, B) ==
    {csv_rows[k].flagged : k \in {m \in DOMAIN csv_rows :
                                     csv_rows[m].file_a = A /\ csv_rows[m].file_b = B}}

\* C10: of three inputs, the first two identical and the third unrelated, at
\* threshold 0.9, a cluster-and-collapse run makes one cluster of the first
\* two and a cluster of the third alone; a pairwise run flags the pair of the
\* first two and flags neither pair with the third.
C10_ThreeInputs ==
    /\ C10_Rows =>
          /\ Len0(clusters) = 2
          /\ {ClusterRows(c) : c \in DOMAIN clusters} = {{0, 1}, {2}}
          /\ Chosen => {Elems0(cluster_report[c].members) : c \in DOMAIN cluster_report}
                           = {{0, 1}, {2}}
          /\ (pc = "done") => Len0(out_file) = 2
    /\ C10_Docs =>
          /\ Len0(csv_rows) = 3
          /\ FlagOf(files[0].name, files[1].name) = {"YES"}
          /\ FlagOf(files[0].name, files[2].name) = {"NO"}
          /\ FlagOf(files[1].name, files[2].name) = {"NO"}

\* the cluster-and-collapse case of C10 has run to its end
C10_Witness == C10_Rows /\ pc = "done" /\ report_file # Unwritten

\* the pairwise case of C10 has run to its end
C10_WitnessPairwise == C10_Docs

\* chunk_paragraphs has returned
Chunked == pc = "c_done"

\* the texts of a list, one after the other
RECURSIVE Concat(_)
Concat(ss) == IF ss = <<>> THEN <<>> ELSE Head(ss) \o Concat(Tail(ss))

IsNew(c) == c.para > 0 /\ ~c.carried

\* the non-overlap portions of a list of chunks, in order: the characters
\* that are neither carried overlap nor separator
NewChars(cs) == SelectSeq(Concat(cs), IsNew)

IsInk(c) == ~isspace(c.ch)

\* C11 as stated: a call of chunk_paragraphs with chunk_size <= overlap is
\* rejected: it builds no chunk and returns none.
C11_Rejected ==
    (pc \in {"c_loop", "c_done"} /\ chunk_size <= overlap) =>
        (chunks = <<>> /\ ~Chunked)

\* C17 as stated: with 0 <= overlap < chunk_size every character of every
\* paragraph is in at least one returned chunk, and the non-overlap portions
\* of the returned chunks, in order, are the input in its order.
C17_NoCharacterDropped ==
    (Chunked /\ 0 <= overlap /\ overlap < chunk_size) =>
        /\ \A k \in DOMAIN paragraphs : \A j \in DOMAIN paragraphs[k] :
              \E c \in DOMAIN returned : \E m \in DOMAIN returned[c] :
                  /\ returned[c][m].para = k
                  /\ returned[c][m].pos = j
                  /\ returned[c][m].ch = paragraphs[k][j].ch
        /\ NewChars(returned) = Concat(paragraphs)

\* C17 amended: with 0 <= overlap < chunk_size the chunks before the final
\* strip hold every character of the input, their non-overlap portions being
\* the input in its order; the returned chunks hold every character that is
\* not whitespace, the non-whitespace characters of their non-overlap
\* portions being those of the input in its order.
C17_NoInkDropped ==
    (Chunked /\ 0 <= overlap /\ overlap < chunk_size) =>
        /\ NewChars(chunks) = Concat(paragraphs)
        /\ SelectSeq(NewChars(returned), IsInk) = SelectSeq(Concat(paragraphs), IsInk)

\* a long first paragraph is cut, text is carried as overlap, and the final
\* strip has removed a space at the cut
C17_Witness ==
    /\ Chunked
    /\ 0 < overlap /\ overlap < chunk_size
    /\ Len(paragraphs) = 2
    /\ Len(returned) >= 3
    /\ \E c \in DOMAIN returned : \E m \in DOMAIN returned[c] : returned[c][m].carried
    /\ NewChars(returned) # Concat(paragraphs)

\* C18 as stated: with 0 <= overlap < chunk_size no returned chunk is longer
\* than chunk_size + overlap + 2 characters.
C18_BoundedSize ==
    (Chunked /\ 0 <= overlap /\ overlap < chunk_size) =>
        \A c \in DOMAIN returned : Len(returned[c]) <= chunk_size + overlap + 2

\* C12 as stated: a run with an invalid threshold stops with the
\* configuration error before any request is sent to the embedding provider.
C12_FailFast == (pc = "error") => ~provider_called

\* C14: once the provider has failed on a batch the run has stopped with the
\* error: no later batch is requested, the vectors received are not
\* clustered, and neither the filtered output nor the report is written.
C14_ProviderFailureAborts ==
    (failed_batch # 0) =>
        /\ pc = "failed"
        /\ batch_at = failed_batch
        /\ embeddings = Empty0
        /\ neigh_ind = Empty0
        /\ clusters = Empty0
        /\ cluster_report = Empty0
        /\ out_file = Unwritten
        /\ report_file = Unwritten

\* the provider fails on batch 2 of 3, one vector received
C14_Witness ==
    /\ pc = "failed"
    /\ failed_batch = 2
    /\ Len0(df_exact) = 3
    /\ batch_size = 1
    /\ vecs = 1
    /\ args.report_path

\* C13 as stated: build_clusters ends with the configuration error for every
\* threshold whose radius 1 - threshold is <= 0 or >= 2, whatever matrix it is
\* given, one without rows included, and for no other threshold.
C13_RejectsInvalidRadius ==
    (pc \in {"union", "clustered", "error"}) =>
        LET radius == 100000 - args.threshold
        IN (radius <= 0 \/ radius >= 200000) <=> (pc = "error")

\* the files whose text cannot be extracted
Unreadable == {k \in DOMAIN files : ~files[k].content.readable}

\* the files that can be read and pass min_chars
Eligible ==
    {k \in DOMAIN files : /\ files[k].content.readable
                          /\ files[k].content.norm_len >= args.min_chars}

\* the pairwise run has ended
PairwiseEnded == pc \in {"p_done", "p_exit"}

\* C15 as stated: a file whose text cannot be extracted is skipped with a
\* warning and the run goes on: every file that can be read and passes
\* min_chars is among the documents chunked and embedded, and, when there are
\* two of them or more, the report is written and holds a pair for every two
\* of them, with the scores of their chunks.
C15_SkipNotFatal ==
    (PairwiseEnded /\ Unreadable # {}) =>
        /\ \A k \in Unreadable : files[k].name \in warned
        /\ \A k \in Eligible :
              \E d \in DOMAIN docs :
                  docs[d] = [name |-> files[k].name, chunks |-> files[k].content.chunks]
        /\ (Cardinality(Eligible) >= 2) =>
              /\ Reported
              /\ \A k1 \in Eligible, k2 \in Eligible :
                    (k1 < k2) =>
                        \E r \in DOMAIN pairs :
                            \/ /\ <<pairs[r].A, pairs[r].B>> = <<files[k1].name, files[k2].name>>
                               /\ doc_embs[pairs[r].A] = files[k1].content.chunks
                               /\ doc_embs[pairs[r].B] = files[k2].content.chunks
                            \/ /\ <<pairs[r].A, pairs[r].B>> = <<files[k2].name, files[k1].name>>
                               /\ doc_embs[pairs[r].A] = files[k2].content.chunks
                               /\ doc_embs[pairs[r].B] = files[k1].content.chunks

\* C16 as stated: the documents skipped for an extraction error can be read
\* off the report: each of them is named in it.
C16_SkippedInReport ==
    Reported =>
        \A n \in warned :
            \E k \in DOMAIN csv_rows : n \in {csv_rows[k].file_a, csv_rows[k].file_b}

\* the items a chain of within-radius steps joins to the items of S
RECURSIVE Grow(_)
Grow(S) ==
    LET more == S \cup {b \in DOMAIN df_exact : \E a \in S : Within(a, b)}
    IN IF more = S THEN S ELSE Grow(more)

\* the rows of df whose text is chained to that of item a
ChainRows(a) ==
    LET items == Grow({a})
    IN {k \in DOMAIN df : \E m \in items : df[k]._text_norm = df[df_exact[m]]._text_norm}

\* the row the policy keeps out of a set of rows
KeptOf(rows) ==
    IF args.rep_strategy = "longest"
    THEN Min({m \in rows : \A m2 \in rows : RawLen(m2) <= RawLen(m)})
    ELSE Min(rows)

\* what the inputs, the vectors and the configuration say the report holds:
\* the groups by ascending first row, the members of each ascending
ExpectedReport ==
    LET groups == {ChainRows(a) : a \in DOMAIN df_exact}
        heads == sorted({Min(rows) : rows \in groups})
    IN [c \in DOMAIN heads |->
           LET rows == CHOOSE rows \in groups : heads[c] \in rows
           IN [rep |-> KeptOf(rows), members |-> sorted(rows)]]

\* C19: the report and the filtered output are fixed by the rows, the vectors
\* and the configuration, whatever order the neighbors of an item were
\* returned and united in and whichever item became a root: the clusters are
\* reported by ascending first row with their members ascending, and the kept
\* rows are saved in ascending original row.
C19_OrderStable ==
    Chosen =>
        LET at(kept) == CHOOSE c \in DOMAIN cluster_report : cluster_report[c].rep = kept
        IN \* the report as built is the expected one ...
           /\ cluster_report = ExpectedReport
           \* ... and it is what the two files hold, in its order
           /\ (pc \in {"saved", "done"}) =>
                 /\ OutSrc = {df[cluster_report[c].rep].src : c \in DOMAIN cluster_report}
                 /\ \A k1 \in DOMAIN out_file, k2 \in DOMAIN out_file :
                        (k1 < k2) => (out_file[k1].src < out_file[k2].src)
           /\ (pc = "done" /\ report_file # Unwritten) =>
                 /\ Len0(report_file) = Len0(df)
                 /\ \A k \in DOMAIN report_file :
                        \E c \in DOMAIN cluster_report :
                            /\ report_file[k].kept_row_idx = cluster_report[c].rep
                            /\ report_file[k].member_row_idx
                                   \in Elems0(cluster_report[c].members)
                 /\ \A k1 \in DOMAIN report_file, k2 \in DOMAIN report_file :
                        (k1 < k2) =>
                            LET c1 == at(report_file[k1].kept_row_idx)
                                c2 == at(report_file[k2].kept_row_idx)
                            IN \/ c1 < c2
                               \/ /\ c1 = c2
                                  /\ report_file[k1].member_row_idx
                                         < report_file[k2].member_row_idx

\* a run has ended in which the neighbors of an item could be returned and
\* united in more than one order
C19_Witness ==
    /\ pc = "done"
    /\ report_file # Unwritten
    /\ \E a \in DOMAIN neigh_ind : Cardinality(neigh_ind[a] \ {a}) >= 2
    /\ Len0(out_file) >= 1

\* a run has ended in which the clusters gave the kept rows in descending
\* order
C19_WitnessUnsorted ==
    /\ pc = "done"
    /\ report_file # Unwritten
    /\ \E c1 \in DOMAIN kept_rows_exact_idx, c2 \in DOMAIN kept_rows_exact_idx :
          c1 < c2 /\ kept_rows_exact_idx[c1] > kept_rows_exact_idx[c2]

\* the rows the pre-collapse step kept, as a data frame of their own
BucketHeads == [k \in DOMAIN df_exact |-> df[df_exact[k]]]

\* C20: the pre-collapse step applied to the rows it kept, in their order,
\* makes a bucket of one row for each of them and keeps them all.
C20_CollapseIdempotent ==
    (pc = "collapsed") =>
        LET again == Buckets(BucketHeads, Len0(BucketHeads))
        IN /\ DOMAIN again.groups = DOMAIN BucketHeads
           /\ \A h \in DOMAIN again.groups : again.groups[h] = Append0(Empty0, h)
           /\ sorted(DOMAIN again.groups) = [k \in DOMAIN BucketHeads |-> k]

\* the step has folded three rows of one normalized text into one bucket
C20_Witness ==
    /\ pc = "collapsed"
    /\ Len0(df) = 3
    /\ Len0(df_exact) = 1
    /\ \E h \in DOMAIN group_indices : Len0(group_indices[h]) = 3

\* s holds t as a run of consecutive characters
Holds(s, t) == \E k \in 0..(Len(s) - Len(t)) : SubSeq(s, k + 1, k + Len(t)) = t

\* C21: the text normalize_text returns for a document holds no carriage
\* return, no tab, no two spaces in a row and no three newlines in a row, and
\* it neither starts nor ends with whitespace.
C21_NormalizedShape ==
    (pc = "n_normalized") =>
        /\ \A k \in DOMAIN norm : norm[k] \notin {"\r", "\t"}
        /\ ~Holds(norm, <<" ", " ">>)
        /\ ~Holds(norm, <<"\n", "\n", "\n">>)
        /\ (norm # <<>>) => (~isspace(norm[1]) /\ ~isspace(norm[Len(norm)]))

\* a text with a tab next to a space, a carriage return and whitespace at
\* its start has been normalized to a text that is not empty
C21_Witness ==
    /\ pc = "n_normalized"
    /\ Holds(raw, <<" ", "\t">>)
    /\ \E k \in DOMAIN raw : raw[k] = "\r"
    /\ isspace(raw[1])
    /\ norm # <<>>

\* three newlines in a row have been made two
C21_WitnessNewlines ==
    /\ pc = "n_normalized"
    /\ raw = <<"a", "\n", "\n", "\n">> \o <<"a">>
    /\ norm = <<"a", "\n", "\n", "a">>

\* C22: the clusters build_clusters returns are the connected components of
\* the graph joining the items within cosine distance 1 - threshold: every
\* index 0..n-1 is in exactly one cluster, the cluster of an item holds the
\* items a chain of within-radius pairs links to it and no other, and an item
\* with no other item within radius is a cluster by itself.
C22_ConnectedComponents ==
    (pc = "clustered") =>
        /\ UNION {Members(c) : c \in DOMAIN clusters} = DOMAIN df_exact
        /\ \A c \in DOMAIN clusters :
              /\ Members(c) # {}
              /\ Len0(clusters[c].members) = Cardinality(Members(c))
              /\ \A c2 \in DOMAIN clusters : (c # c2) => (Members(c) \cap Members(c2) = {})
              /\ \A a \in Members(c) : Members(c) = Grow({a})
        /\ \A a \in DOMAIN df_exact :
              (\A b \in DOMAIN df_exact : (b # a) => ~Within(a, b)) =>
                  \E c \in DOMAIN clusters : Members(c) = {a}

\* of three items two are joined by a chain through the third without being
\* within radius of each other
C22_Witness ==
    /\ pc = "clustered"
    /\ Len0(df_exact) = 3
    /\ Len0(clusters) = 1
    /\ \E a \in DOMAIN df_exact, b \in DOMAIN df_exact : ~Within(a, b)

\* of three items two are at distance exactly the radius and the third is
\* within radius of neither
C22_WitnessSingleton ==
    /\ pc = "clustered"
    /\ Len0(df_exact) = 3
    /\ Len0(clusters) = 2
    /\ args.threshold = 90000
    /\ \E c \in DOMAIN clusters : Cardinality(Members(c)) = 1

\* s starts with t
StartsWith(s, t) == Len(t) <= Len(s) /\ SubSeq(s, 1, Len(t)) = t

\* C23 as stated: for every paragraph longer than chunk_size, whatever its
\* place in the list, chunk_paragraphs builds a chunk that is the first
\* chunk_size characters of the paragraph, and the chunk after it starts with
\* the rest of the paragraph, preceded by the last `overlap` characters
\* before the cut when overlap > 0.
C23_LongParagraphSplit ==
    (Chunked /\ 0 <= overlap /\ overlap < chunk_size) =>
        \A k \in DOMAIN paragraphs :
            (Len(paragraphs[k]) > chunk_size) =>
                \E c \in DOMAIN chunks :
                    /\ chunks[c] = head_of(paragraphs[k], chunk_size)
                    /\ c + 1 \in DOMAIN chunks
                    /\ StartsWith(chunks[c + 1],
                           IF overlap > 0
                           THEN carry(slice_from(head_of(paragraphs[k], chunk_size), -overlap))
                                    \o separator \o remainder_of(paragraphs[k], chunk_size)
                           ELSE remainder_of(paragraphs[k], chunk_size))

\* the claim of C23 for a list whose first paragraph is the long one and
\* whose second is not
C23_FirstParagraphSplit ==
    (Chunked /\ 0 <= overlap /\ overlap < chunk_size /\ Len(paragraphs) >= 1
         /\ Len(paragraphs[1]) > chunk_size) =>
        /\ chunks[1] = head_of(paragraphs[1], chunk_size)
        /\ StartsWith(chunks[2],
               IF overlap > 0
               THEN carry(slice_from(head_of(paragraphs[1], chunk_size), -overlap))
                        \o separator \o remainder_of(paragraphs[1], chunk_size)
               ELSE remainder_of(paragraphs[1], chunk_size))

\* the last n characters of s, all of s when it has fewer
LastChars(s, n) == SubSeq(s, IF Len(s) > n THEN Len(s) - n + 1 ELSE 1, Len(s))

\* the text of the chunk under construction
CurText == join(separator, cur)

\* the paragraph the loop is at does not fit into the current chunk, which
\* holds something
Overflows ==
    /\ pc = "c_loop"
    /\ para_at <= Len(paragraphs)
    /\ cur # <<>>
    /\ cur_len + Len(paragraphs[para_at]) + 1 > chunk_size

\* C24: when a paragraph overflows a non-empty current chunk, that chunk is
\* closed as it stands, and the text of the next chunk is seeded with the last
\* `overlap` characters of the closed chunk, the separator and the paragraph;
\* with no overlap it is seeded with the paragraph alone.
C24_OverflowSeedsNext ==
    [][Overflows =>
          LET closed == CurText
              p == paragraphs[para_at]
              last == LastChars(closed, overlap)
          IN /\ chunks' = Append(chunks, closed)
             /\ join(separator, cur')
                    = IF overlap > 0
                      THEN [j \in DOMAIN last |-> [last[j] EXCEPT !.carried = TRUE]]
                               \o separator \o p
                      ELSE p]_vars

\* a chunk holding the first paragraph has been closed by the second, and
\* the current chunk is the carried tail and the second paragraph
C24_Witness ==
    /\ pc = "c_loop"
    /\ 0 < overlap /\ overlap < chunk_size
    /\ para_at = 3
    /\ chunks = <<paragraphs[1]>>
    /\ Len(cur) = 2
    /\ cur[1] # <<>>
    /\ \A j \in DOMAIN cur[1] : cur[1][j].carried
    /\ cur[2] = paragraphs[2]

\* the places (paragraph, position) of the characters of s that come from a
\* paragraph and are not carried overlap, in the order s holds them
Places(s) ==
    LET new == SelectSeq(s, IsNew)
    IN [j \in DOMAIN new |-> <<new[j].para, new[j].pos>>]

\* place a comes before place b in the input
Before(a, b) == a[1] < b[1] \/ (a[1] = b[1] /\ a[2] < b[2])

\* C25: every chunk chunk_paragraphs returns is non-empty and neither starts
\* nor ends with whitespace; the chunk under construction when the input ends
\* is flushed: it is the last chunk built and, unless it is blank, the last
\* one returned; and the chunks come in the order of the paragraphs they were
\* built from: the characters new to the returned chunks, read chunk after
\* chunk, are in the order of the input.
C25_TidyFlushedOrdered ==
    Chunked =>
        /\ \A c \in DOMAIN returned :
              /\ returned[c] # <<>>
              /\ ~isspace(returned[c][1].ch)
              /\ ~isspace(returned[c][Len(returned[c])].ch)
        /\ (cur # <<>>) =>
              /\ chunks # <<>>
              /\ chunks[Len(chunks)] = CurText
              /\ (\E j \in DOMAIN CurText : IsInk(CurText[j])) =>
                     /\ returned # <<>>
                     /\ returned[Len(returned)] = strip(CurText)
        /\ LET places == Places(Concat(returned))
           IN \A a \in DOMAIN places, b \in DOMAIN places :
                  (a < b) => Before(places[a], places[b])

\* a call has returned three chunks, the last of them flushed at the end of
\* the input, and the strip has removed whitespace from one of them
C25_Witness ==
    /\ Chunked
    /\ Len(paragraphs) = 2
    /\ Len(returned) = 3
    /\ returned[3] = strip(CurText)
    /\ \E c \in DOMAIN chunks : strip(chunks[c]) # chunks[c]

\* C28: chunk_paragraphs returns for every paragraph list and every integer
\* chunk_size and overlap, chunk_size <= overlap included: the loop takes each
\* paragraph once, each round builds at most one chunk, and at most
\* len(paragraphs) + 1 chunks are built and returned.
C28_SinglePassTerminates ==
    /\ []((pc = "c_loop") =>
              /\ para_at <= Len(paragraphs) + 1
              /\ Len(chunks) <= para_at - 1)
    /\ [](Chunked =>
              /\ para_at = Len(paragraphs) + 1
              /\ Len(chunks) <= Len(paragraphs) + 1
              /\ Len(returned) <= Len(chunks))
    /\ <>Chunked

\* a call with chunk_size <= overlap has returned one chunk more than it was
\* given paragraphs
C28_Witness ==
    /\ Chunked
    /\ chunk_size <= overlap
    /\ Len(paragraphs) = 2
    /\ Len(returned) = 3

\* a call with a negative chunk_size has returned
C28_WitnessNegative ==
    /\ Chunked
    /\ chunk_size < 0
    /\ overlap < 0
    /\ Len(paragraphs) = 2
    /\ Len(chunks) = 3

\* the parent list is a forest: from every element the parents lead to an
\* element that is its own parent
Forest(parent) ==
    \A e \in DOMAIN parent :
        LET top == Up(parent, e, Len0(parent)) IN parent[top] = top

\* C27: after any unions and finds, and at every round of a find, the parent
\* list is a forest and every element that is not a root has a rank below
\* that of its parent; a find leaves every set as it was when it was called
\* and returns the root of its element; and every find returns.
C27_ForestRanked ==
    /\ []((pc \in {"d_idle", "d_find"}) =>
              /\ Forest(dsu.parent)
              /\ \A e \in DOMAIN dsu.parent :
                    (dsu.parent[e] # e) => (dsu.rank[e] < dsu.rank[dsu.parent[e]]))
    /\ []((pc = "d_find") =>
              /\ Sets(dsu.parent) = members_before
              /\ \E m \in members_before : {find_of, find_at} \subseteq m)
    /\ ((pc = "d_find") ~> (pc = "d_idle"))

\* a find has made a round of its loop and stands at the root of a tree of
\* rank 2, in which path halving has left an element of rank 1 without
\* children
C27_Witness ==
    /\ pc = "d_find"
    /\ find_of # find_at
    /\ dsu.parent[find_at] = find_at
    /\ dsu.rank[find_at] = 2
    /\ \E e \in DOMAIN dsu.parent :
          /\ dsu.rank[e] = 1
          /\ dsu.parent[e] = find_at
          /\ e # find_at
          /\ \A e2 \in DOMAIN dsu.parent : (e2 # e) => (dsu.parent[e2] # e)

\* the attempts _post made for the payload all raised a RequestException
AllFailed == \A k \in DOMAIN outcomes : outcomes[k] = "request_exception"

\* what C30 and its amendment have in common: _post returns at the first
\* attempt that succeeds, in simulate mode no HTTP attempt is made, and after
\* a PipelineError no later stage has posted
C30_Common ==
    /\ \A k \in DOMAIN outcomes :
          (outcomes[k] = "ok") => (k = Len(outcomes) /\ pc # "r_post")
    /\ config.simulate => (posts = {} /\ outcomes = <<>>)
    /\ (pc = "r_failed") => (posts \subseteq 1..stage)

\* the pipeline is running or has ended
InPipeline == pc \in {"r_loop", "r_post", "r_failed", "r_crashed", "r_done"}

\* C30 as stated: with retry_attempts = r, _post makes at most r + 1 HTTP
\* attempts for a payload, returns at the first successful one, raises
\* PipelineError only after all r + 1 attempts failed, and makes no HTTP
\* attempt in simulate mode; after a PipelineError no later stage posts.
C30_PostRetries ==
    InPipeline =>
        /\ Len(outcomes) <= config.retry_attempts + 1
        /\ (pc = "r_failed") =>
              (Len(outcomes) = config.retry_attempts + 1 /\ AllFailed)
        /\ C30_Common

\* C30 amended: with retry_attempts = r, _post makes at most max(0, r) + 1
\* HTTP attempts for a payload and returns at the first successful one; it
\* raises PipelineError either before any attempt, when the service has no
\* configuration, or after all max(0, r) + 1 attempts raised a
\* RequestException; in simulate mode it makes no HTTP attempt; after a
\* PipelineError the run makes no further step, so no later stage posts.
C30_PostRetriesClamped ==
    /\ [](InPipeline =>
              /\ Len(outcomes) <= retries_of(config) + 1
              /\ (pc = "r_failed") =>
                    \/ (stage \in config.missing /\ outcomes = <<>>)
                    \/ (Len(outcomes) = retries_of(config) + 1 /\ AllFailed)
              /\ C30_Common)
    /\ [][(pc = "r_failed") => UNCHANGED vars]_vars

\* the second stage has raised PipelineError after three failed attempts, the
\* first stage having posted after a retry
C30_Witness ==
    /\ pc = "r_failed"
    /\ config.retry_attempts = 2
    /\ stage = 2
    /\ posts = {1, 2}
    /\ Len(outcomes) = 3
    /\ AllFailed

\* a run has gone through all stages, the last payload posted at the second
\* attempt
C30_WitnessRetried ==
    /\ pc = "r_done"
    /\ outcomes = <<"request_exception", "ok">>
    /\ posts = 1..NStages

\* PipelineError has been raised for a service without configuration
C30_WitnessMissing ==
    /\ pc = "r_failed"
    /\ stage \in config.missing
    /\ posts = 1..(stage - 1)
    /\ stage > 1

\* the documents have been collected and are handed on
Collected == pc \in {"p_collected", "p_embedded", "p_scored", "p_crashed", "p_reported"}

\* C26 as stated: every document that passes the min_chars filter, for any
\* min_chars >= 0, has a non-empty sequence of chunks, so every document
\* handed to the embedding and scoring steps has at least one chunk vector.
C26_EveryDocumentHasChunks ==
    Collected => \A d \in DOMAIN docs : docs[d].chunks # <<>>

\* with min_chars above 0 every collected document has a chunk
C26_PositiveMinChars ==
    (Collected /\ args.min_chars > 0) => \A d \in DOMAIN docs : docs[d].chunks # <<>>

\* the descending order of the sort key, and the flagged rows first
ReportOrdered ==
    \A k1 \in DOMAIN csv_rows, k2 \in DOMAIN csv_rows :
        (k1 < k2) =>
            /\ SortKey(PairScores(csv_rows[k1].file_a, csv_rows[k1].file_b))
                   >= SortKey(PairScores(csv_rows[k2].file_a, csv_rows[k2].file_b))
            /\ (csv_rows[k2].flagged = "YES") => (csv_rows[k1].flagged = "YES")

\* C29 as stated: the report lists the pairs in descending order of
\* max(doc_sim, max_chunk_sim), so every flagged row precedes every unflagged
\* one; explanations are requested only for flagged pairs, for at most
\* max_pairs of them (a cap that is not negative), taken in the order of the
\* report.
C29_OrderedAndCapped ==
    Reported =>
        /\ ReportOrdered
        /\ (args.max_pairs >= 0) => (Len0(explained) <= args.max_pairs)
        /\ Len0(explained) <= Len0(flagged)
        /\ \A k \in DOMAIN explained : explained[k] = Names(flagged[k])

\* the cap of C29 for a cap below 0, which --max-pairs accepts
C29_NegativeCap ==
    (Reported /\ args.max_pairs < 0) => (explained = Empty0)

\* the parts of C29 that do not depend on the cap
C29_OrderedAndFlaggedOnly ==
    Reported =>
        /\ ReportOrdered
        /\ Len0(explained) <= Len0(flagged)
        /\ \A k \in DOMAIN explained : explained[k] = Names(flagged[k])
        /\ (~args.explain) => (explained = Empty0)

====
